---- MODULE Spec2Model ----
(***************************************************************************)
(* Incremental GPU draw pipeline of the phaedra terminal renderer:         *)
(* the layer quad arena (renderstate.rs), the command executor             *)
(* (execute_render.rs), the render plan and its statistics context         *)
(* (render_plan.rs), the pass / retry loop (termwindow/render/paint.rs)    *)
(* and the draw pass with the frame-to-frame store                         *)
(* (termwindow/render/draw.rs).                                            *)
(*                                                                         *)
(* Option<T> values are sequences of length 0 (None) or 1 (Some).          *)
(* A vertex buffer is the function from the quad indices written into it   *)
(* to the tag of the section that wrote the quad.                          *)
(***************************************************************************)
EXTENDS Integers, Sequences, FiniteSets, TLC

VARIABLES
    pc,                 \* position of paint_impl: idle, pass, alloc, draw
    num_frames,         \* the paint_impl calls so far
    input,              \* what the frame describer yields for this frame
    pass,               \* loop counter of paint_impl's 'pass loop
    layers,             \* RenderState.layers, sorted by zindex
    render_plan,        \* TermWindow.render_plan : Option<RenderPlan>
    prev_pane_frames,   \* TermWindow.prev_pane_frames : pane id -> PaneFrame
    prev_frame_buffers, \* RenderState.prev_frame_buffers : Option<FrameBuffers>
    cofree,             \* the CofreeContext of the last pass
    draw_calls,         \* the draw_indexed calls of the last call_draw
    frame_start,        \* prev_pane_frames as they were when paint_impl began
    frame_log,          \* what happened in this paint_impl so far
    run,                \* the pane outcomes of the frames since start
    faults,             \* the recoverable errors met since start
    pass_trace,         \* the "chrono skip" / "chrono describe" lines of the last pass
    paint_result,       \* how the last paint_impl ended and what it returned
    allow_images,       \* how far images were degraded in this paint_impl
    probe,              \* the arguments a command IR operation is applied to
    applied,            \* the operation applied to them and what it returned
    device              \* one slot's wgpu vertex buffers, by identity, and the store's

vars == <<pc, num_frames, input, pass, layers, render_plan, prev_pane_frames,
          prev_frame_buffers, cofree, draw_calls, frame_start, frame_log,
          run, faults, pass_trace, paint_result, allow_images, probe, applied,
          device>>

(***************************************************************************)
(* Program constants                                                       *)
(***************************************************************************)
SideCapacity == 32
NewLayerCapacity == 128
MainLayerCapacity == 1024
QuadTile == 128
INDICES_PER_QUAD == 6
NumSlots == 3

(***************************************************************************)
(* Bounds of the model                                                     *)
(***************************************************************************)
MaxFrames == 3
MaxFaults == 1
MaxRun == 5
MaxProbeQuads == 260

None == <<>>
Some(x) == <<x>>
IsSome(o) == Len(o) = 1
Unwrap(o) == o[1]

PaneIds == {1, 2}
CacheKeys == {1, 2}
Slots == 0 .. (NumSlots - 1)

(***************************************************************************)
(* Command IR, restricted to what the executor looks at: the variant, the  *)
(* slot ("layer"), the depth ("zindex") and the position.                  *)
(***************************************************************************)
FillRect(l, z, p) == [kind |-> "FillRect", layer |-> l, zindex |-> z, pos |-> p]
DrawQuad(l, z, p) == [kind |-> "DrawQuad", layer |-> l, zindex |-> z, pos |-> p]
Batch(cs) == [kind |-> "Batch", cmds |-> cs]
Nop == [kind |-> "Nop"]
Clear == [kind |-> "Clear"]
SetClipRect == [kind |-> "SetClipRect"]
BeginPostProcess == [kind |-> "BeginPostProcess"]

RECURSIVE Repeat(_, _)
Repeat(cmd, n) == IF n = 0 THEN <<>> ELSE <<cmd>> \o Repeat(cmd, n - 1)

(***************************************************************************)
(* The frame describer.  A pane's command list is a function of the pane   *)
(* and of the content its cache key stands for.                            *)
(***************************************************************************)
BigPaneQuads == SideCapacity - 1

ViewportWidth == 80
ViewportHeight == 50

\* The pixel rectangle of a pane: two panes side by side, the second one
\* reaching past the right edge of the viewport.
PaneBounds(pane) ==
    [x |-> (pane - 1) * 40, y |-> 0, width |-> 40 + (pane - 1) * 8, height |-> 50]

describe_window_background(n) ==
    <<Clear>> \o Repeat(FillRect(0, 0, 0), n)

describe_pane_with_snapshot(pane, key) ==
    LET cmds ==
            IF pane = 1 /\ key = 1
            THEN <<Batch(<<FillRect(0, 0, 1), DrawQuad(1, 0, 1)>>), Nop>>
            ELSE IF pane = 1
            THEN Repeat(FillRect(0, 0, 2), BigPaneQuads)
            ELSE IF key = 1
            THEN <<SetClipRect, FillRect(0, 0, 3), FillRect(0, 0, 3)>>
            ELSE <<DrawQuad(2, 1, 4), Batch(<<>>), FillRect(0, 0, 5)>>
    IN  [pane_id |-> pane,
         cache_key |-> key,
         command_hash |-> 10 * pane + key,
         commands |-> cmds,
         bounds |-> PaneBounds(pane),
         last_execution_stats |-> None,
         skip_streak |-> 0]

describe_chrome == <<BeginPostProcess, FillRect(2, 0, 9)>>

(***************************************************************************)
(* Layer quad arena                                                        *)
(***************************************************************************)
\* The content of a vertex buffer: entry q + 1 is the tag of the section
\* that wrote quad q, or Unwritten; quads beyond the end are unwritten.
Unwritten == [sec |-> -1, key |-> 0]
EmptyBuffer == <<>>

RECURSIVE Padding(_)
Padding(n) == IF n <= 0 THEN <<>> ELSE <<Unwritten>> \o Padding(n - 1)

WriteQuad(buf, idx, tag) ==
    IF idx < Len(buf) THEN [buf EXCEPT ![idx + 1] = tag]
    ELSE buf \o Padding(idx - Len(buf)) \o <<tag>>

Written(buf) == {q \in 0 .. (Len(buf) - 1) : buf[q + 1] # Unwritten}

\* RenderLayer::compute_vertices: a TripleVertexBuffer of num_quads quads.
\* allocs, wrapped and advanced record how the cursor got where it is.
compute_vertices(num_quads) ==
    [index |-> 0,
     bufs |-> <<EmptyBuffer, EmptyBuffer, EmptyBuffer>>,
     capacity |-> num_quads,
     next_quad |-> 0,
     allocs |-> 0,
     wrapped |-> FALSE,
     advanced |-> 0]

RenderLayer_new(num_quads, zindex) ==
    [zindex |-> zindex,
     vb |-> <<compute_vertices(SideCapacity),
              compute_vertices(num_quads),
              compute_vertices(SideCapacity)>>]

\* clear_quad_allocation that leaves the cursor where it is.
clear_quad_allocation_Keeps(vb) == vb

clear_quad_allocation(vb) ==
    [vb EXCEPT !.next_quad = 0, !.allocs = 0, !.wrapped = FALSE, !.advanced = 0]

RenderLayer_clear_quad_allocation(layer) ==
    [layer EXCEPT !.vb = <<clear_quad_allocation(layer.vb[1]),
                            clear_quad_allocation(layer.vb[2]),
                            clear_quad_allocation(layer.vb[3])>>]

need_more_quads(vb) ==
    IF vb.next_quad > vb.capacity THEN Some(vb.next_quad) ELSE None

current_quad_count(vb) == vb.next_quad

advance_quad_count(vb, delta) ==
    [vb EXCEPT !.next_quad = @ + delta, !.advanced = @ + delta]

vertex_index_count(vb) == vb.next_quad * INDICES_PER_QUAD

\* next_index that goes round two instances only.
next_index_TwoInstances(vb) ==
    [vb EXCEPT !.index = IF @ + 1 >= 2 THEN 0 ELSE @ + 1]

next_index(vb) ==
    [vb EXCEPT !.index = IF @ + 1 >= 3 THEN 0 ELSE @ + 1]

\* AllocateIndex without the wrap to quad 0.
AllocateIndex_NoWrap(idx, capacity) == idx

\* The quad index MappedQuads::allocate hands out for cursor idx.
AllocateIndex(idx, capacity) == IF idx >= capacity THEN 0 ELSE idx

\* allocate whose cursor starts again behind the quad it wrapped to.
allocate_CursorWraps(vb, tag) ==
    [vb EXCEPT !.next_quad = AllocateIndex(vb.next_quad, vb.capacity) + 1,
               !.bufs[vb.index + 1] =
                   WriteQuad(@, AllocateIndex(vb.next_quad, vb.capacity), tag),
               !.allocs = @ + 1,
               !.wrapped = @ \/ (vb.next_quad >= vb.capacity)]

allocate(vb, tag) ==
    [vb EXCEPT !.next_quad = @ + 1,
               !.bufs[vb.index + 1] =
                   WriteQuad(@, AllocateIndex(vb.next_quad, vb.capacity), tag),
               !.allocs = @ + 1,
               !.wrapped = @ \/ (vb.next_quad >= vb.capacity)]

HasLayer(ls, z) == \E i \in 1 .. Len(ls) : ls[i].zindex = z

LayerPos(ls, z) == CHOOSE i \in 1 .. Len(ls) : ls[i].zindex = z

\* InsertByZindex that puts the new layer in front of the others.
InsertByZindex_Front(front, last) == <<last>> \o front

\* The place a sort by zindex gives to last, pushed behind the sorted front.
InsertByZindex(front, last) ==
    LET k == Cardinality({i \in 1 .. Len(front) : front[i].zindex <= last.zindex})
    IN  SubSeq(front, 1, k) \o <<last>> \o SubSeq(front, k + 1, Len(front))

\* layers.sort_by(|a, b| a.zindex.cmp(&b.zindex)).
RECURSIVE SortByZindex(_)
SortByZindex(ls) ==
    IF Len(ls) <= 1 THEN ls
    ELSE InsertByZindex(SortByZindex(SubSeq(ls, 1, Len(ls) - 1)), ls[Len(ls)])

layer_for_zindex(ls, z) ==
    IF HasLayer(ls, z) THEN ls
    ELSE SortByZindex(Append(ls, RenderLayer_new(NewLayerCapacity, z)))

RenderState_new == <<RenderLayer_new(MainLayerCapacity, 0)>>

(***************************************************************************)
(* Command executor                                                        *)
(***************************************************************************)
ExecutionHistory_new ==
    [quads_emitted |-> 0, fills_emitted |-> 0, draws_emitted |-> 0,
     overdraw_positions |-> 0, position_set |-> {}]

stats(h) ==
    [quads_emitted |-> h.quads_emitted, fills_emitted |-> h.fills_emitted,
     draws_emitted |-> h.draws_emitted, overdraw_positions |-> h.overdraw_positions]

\* mark_position that does not insert the position.
mark_position_NoInsert(h, position) ==
    [h EXCEPT !.overdraw_positions = IF position \in h.position_set THEN @ + 1 ELSE @]

mark_position(h, position) ==
    [h EXCEPT !.overdraw_positions = IF position \in h.position_set THEN @ + 1 ELSE @,
              !.position_set = @ \cup {position}]

\* Allocate one quad in slot cmd.layer of the layer of depth cmd.zindex,
\* which ls has, and write its attributes.
AllocateQuad(cmd, ls, tag) ==
    [ls EXCEPT ![LayerPos(ls, cmd.zindex)].vb[cmd.layer + 1] = allocate(@, tag)]

\* The FillRect / DrawQuad arm of execute_command.
EmitQuad(cmd, ls, tag) == AllocateQuad(cmd, layer_for_zindex(ls, cmd.zindex), tag)

RECURSIVE execute_commands(_, _, _)
RECURSIVE execute_command(_, _, _)
execute_command(cmd, ls, tag) ==
    CASE cmd.kind \in {"Clear", "SetClipRect", "BeginPostProcess", "Nop"} -> ls
      [] cmd.kind = "Batch" -> execute_commands(cmd.cmds, ls, tag)
      [] cmd.kind \in {"FillRect", "DrawQuad"} -> EmitQuad(cmd, ls, tag)

\* The rest of the loop of execute_commands once the head command has
\* turned the layers into next.
RestOfCommands(cmds, next, tag) ==
    IF Len(next) > 0 THEN execute_commands(Tail(cmds), next, tag) ELSE next

execute_commands(cmds, ls, tag) ==
    IF cmds = <<>> THEN ls
    ELSE RestOfCommands(cmds, execute_command(Head(cmds), ls, tag), tag)

\* history.fills_emitted / draws_emitted += 1; history.quads_emitted += 1.
CountQuad(h, kind) ==
    [h EXCEPT !.fills_emitted = IF kind = "FillRect" THEN @ + 1 ELSE @,
              !.draws_emitted = IF kind = "DrawQuad" THEN @ + 1 ELSE @,
              !.quads_emitted = @ + 1]

RECURSIVE execute_commands_with_history_mut(_, _, _)
RECURSIVE execute_command_with_history(_, _, _)
execute_command_with_history(cmd, s, tag) ==
    CASE cmd.kind = "Batch" -> execute_commands_with_history_mut(cmd.cmds, s, tag)
      [] cmd.kind \in {"FillRect", "DrawQuad"} ->
            [layers |-> execute_command(cmd, s.layers, tag),
             history |-> CountQuad(mark_position(s.history, cmd.pos), cmd.kind)]
      [] OTHER -> [s EXCEPT !.layers = execute_command(cmd, s.layers, tag)]

\* The rest of the loop of execute_commands_with_history_mut.
RestOfCommandsWithHistory(cmds, next, tag) ==
    IF Len(next.layers) > 0
    THEN execute_commands_with_history_mut(Tail(cmds), next, tag)
    ELSE next

execute_commands_with_history_mut(cmds, s, tag) ==
    IF cmds = <<>> THEN s
    ELSE RestOfCommandsWithHistory(
             cmds, execute_command_with_history(Head(cmds), s, tag), tag)

execute_commands_with_history(cmds, ls, tag) ==
    execute_commands_with_history_mut(
        cmds, [layers |-> ls, history |-> ExecutionHistory_new], tag)

(***************************************************************************)
(* Render plan                                                             *)
(***************************************************************************)
RECURSIVE SnapshotSlots(_, _)
SnapshotSlots(layer, sub_idx) ==
    IF sub_idx >= NumSlots THEN <<>>
    ELSE <<[zindex |-> layer.zindex, sub_idx |-> sub_idx,
            quad_count |-> current_quad_count(layer.vb[sub_idx + 1])]>>
         \o SnapshotSlots(layer, sub_idx + 1)

RECURSIVE snapshot_layers(_)
snapshot_layers(ls) ==
    IF ls = <<>> THEN <<>>
    ELSE SnapshotSlots(Head(ls), 0) \o snapshot_layers(Tail(ls))

quad_count_for_snapshot(snapshots, zindex, sub_idx) ==
    LET hits == {i \in 1 .. Len(snapshots) :
                    snapshots[i].zindex = zindex /\ snapshots[i].sub_idx = sub_idx}
    IN  IF hits = {} THEN 0
        ELSE snapshots[CHOOSE i \in hits : \A j \in hits : i <= j].quad_count

CofreeContext_new ==
    [total_quads_emitted |-> 0, sections_processed |-> 0, sections_skipped |-> 0,
     skip_streak |-> 0, prior_outcomes |-> <<>>]

Skipped == [kind |-> "Skipped"]
Executed(st) == [kind |-> "Executed", stats |-> st]

\* advance that leaves sections_skipped alone.
advance_SkipNotCounted(ctx, outcome) ==
    IF outcome.kind = "Skipped"
    THEN [ctx EXCEPT !.sections_processed = @ + 1,
                     !.skip_streak = @ + 1,
                     !.prior_outcomes = Append(@, outcome)]
    ELSE [ctx EXCEPT !.sections_processed = @ + 1,
                     !.total_quads_emitted = @ + outcome.stats.quads_emitted,
                     !.skip_streak = 0,
                     !.prior_outcomes = Append(@, outcome)]

advance(ctx, outcome) ==
    IF outcome.kind = "Skipped"
    THEN [ctx EXCEPT !.sections_processed = @ + 1,
                     !.sections_skipped = @ + 1,
                     !.skip_streak = @ + 1,
                     !.prior_outcomes = Append(@, outcome)]
    ELSE [ctx EXCEPT !.sections_processed = @ + 1,
                     !.total_quads_emitted = @ + outcome.stats.quads_emitted,
                     !.skip_streak = 0,
                     !.prior_outcomes = Append(@, outcome)]

\* skip_rate as the fraction <<numerator, denominator>>; 0/1 when nothing
\* was processed.
skip_rate(ctx) ==
    IF ctx.sections_processed = 0 THEN <<0, 1>>
    ELSE <<ctx.sections_skipped, ctx.sections_processed>>

Max(a, b) == IF a >= b THEN a ELSE b
Min(a, b) == IF a <= b THEN a ELSE b

\* from_pane_bounds that clamps the origin only, not the far edges.
from_pane_bounds_FarEdgeFree(bounds, viewport_width, viewport_height) ==
    LET x == Max(bounds.x, 0)
        y == Max(bounds.y, 0)
        right == Max(bounds.x + bounds.width, 0)
        bottom == Max(bounds.y + bounds.height, 0)
    IN  [x |-> x, y |-> y,
         width |-> IF right >= x THEN right - x ELSE 0,
         height |-> IF bottom >= y THEN bottom - y ELSE 0]

from_pane_bounds(bounds, viewport_width, viewport_height) ==
    LET x == Max(bounds.x, 0)
        y == Max(bounds.y, 0)
        right == Max(Min(bounds.x + bounds.width, viewport_width), 0)
        bottom == Max(Min(bounds.y + bounds.height, viewport_height), 0)
    IN  [x |-> x, y |-> y,
         width |-> IF right >= x THEN right - x ELSE 0,
         height |-> IF bottom >= y THEN bottom - y ELSE 0]

(***************************************************************************)
(* Continuity store: FrameBuffers holds the vertex buffers handed to the   *)
(* draw pass and the section ranges of the plan that was drawn.  panes     *)
(* and keys remember which pane, described under which cache key, each     *)
(* pane section of that plan belonged to.                                  *)
(***************************************************************************)
FrameBuffers_buffer(frame, zindex, sub_idx) ==
    LET hits == {i \in 1 .. Len(frame.buffers) :
                    frame.buffers[i].zindex = zindex /\ frame.buffers[i].sub_idx = sub_idx}
    IN  IF hits = {} THEN None
        ELSE Some(frame.buffers[CHOOSE i \in hits : \A j \in hits : i <= j].buffer)

quad_range_for_section(range, zindex, sub_idx) ==
    LET start_quad == quad_count_for_snapshot(range.start, zindex, sub_idx)
        end_quad == quad_count_for_snapshot(range.end, zindex, sub_idx)
    IN  IF end_quad > start_quad THEN Some(<<start_quad, end_quad>>) ELSE None

\* section_idx counts from 0, as Vec::get does.
FrameBuffers_section_quad_range(frame, section_idx, zindex, sub_idx) ==
    IF section_idx + 1 <= Len(frame.section_ranges)
    THEN quad_range_for_section(frame.section_ranges[section_idx + 1], zindex, sub_idx)
    ELSE None

\* end_snapshot.quad_count - start_quad for an entry of quad_range.end; the
\* code subtracts only when the difference is positive.
SnapshotDelta(quad_range, end_snapshot) ==
    end_snapshot.quad_count
      - quad_count_for_snapshot(quad_range.start, end_snapshot.zindex, end_snapshot.sub_idx)

frame_has_buffers_for_range(frame, quad_range) ==
    \A k \in 1 .. Len(quad_range.end) :
        \/ SnapshotDelta(quad_range, quad_range.end[k]) <= 0
        \/ IsSome(FrameBuffers_buffer(frame, quad_range.end[k].zindex,
                                      quad_range.end[k].sub_idx))

\* render_layer.vb[end_snapshot.sub_idx].advance_quad_count(quad_delta) on
\* the layer of depth end_snapshot.zindex, which ls has.
AdvanceSlot(ls, end_snapshot, quad_delta) ==
    [ls EXCEPT ![LayerPos(ls, end_snapshot.zindex)].vb[end_snapshot.sub_idx + 1] =
                   advance_quad_count(@, quad_delta)]

RECURSIVE AdvanceFrom(_, _, _)
AdvanceFrom(ls, quad_range, k) ==
    IF k > Len(quad_range.end) THEN ls
    ELSE IF SnapshotDelta(quad_range, quad_range.end[k]) <= 0
    THEN AdvanceFrom(ls, quad_range, k + 1)
    ELSE AdvanceFrom(
             AdvanceSlot(layer_for_zindex(ls, quad_range.end[k].zindex),
                         quad_range.end[k],
                         SnapshotDelta(quad_range, quad_range.end[k])),
             quad_range, k + 1)

advance_quad_counts_for_range(ls, quad_range) == AdvanceFrom(ls, quad_range, 1)

(***************************************************************************)
(* paint_pass                                                              *)
(***************************************************************************)
BackgroundTag == [sec |-> 0, key |-> 0]
ChromeTag == [sec |-> 9, key |-> 0]
PaneTag(pane, key) == [sec |-> pane, key |-> key]

EmptyMap == [p \in {} |-> 0]

RenderSection(scissor, content_hash, start, end, skippable, st) ==
    [scissor |-> scissor,
     content_hash |-> content_hash,
     quad_range |-> [start |-> start, end |-> end],
     skippable |-> skippable,
     stats |-> st]

\* PriorQuadRange without the test of pane_skip_chain_valid.
PriorQuadRange_IgnoresChain(candidate_skippable, pane_skip_chain_valid, previous_frame, section_idx) ==
    IF candidate_skippable
    THEN IF /\ IsSome(previous_frame)
            /\ section_idx + 1 <= Len(Unwrap(previous_frame).section_ranges)
            /\ frame_has_buffers_for_range(
                   Unwrap(previous_frame),
                   Unwrap(previous_frame).section_ranges[section_idx + 1])
         THEN Some(Unwrap(previous_frame).section_ranges[section_idx + 1])
         ELSE None
    ELSE None

\* PriorQuadRange with an empty range standing in for a missing one.
PriorQuadRange_DefaultRange(candidate_skippable, pane_skip_chain_valid, previous_frame, section_idx) ==
    IF candidate_skippable /\ pane_skip_chain_valid
    THEN IF /\ IsSome(previous_frame)
            /\ section_idx + 1 <= Len(Unwrap(previous_frame).section_ranges)
         THEN IF frame_has_buffers_for_range(
                     Unwrap(previous_frame),
                     Unwrap(previous_frame).section_ranges[section_idx + 1])
              THEN Some(Unwrap(previous_frame).section_ranges[section_idx + 1])
              ELSE None
         ELSE Some([start |-> <<>>, end |-> <<>>])
    ELSE None

\* The range of the previous frame a candidate pane section may replay:
\* lines 294-306 of paint_pass.
PriorQuadRange(candidate_skippable, pane_skip_chain_valid, previous_frame, section_idx) ==
    IF candidate_skippable /\ pane_skip_chain_valid
    THEN IF /\ IsSome(previous_frame)
            /\ section_idx + 1 <= Len(Unwrap(previous_frame).section_ranges)
            /\ frame_has_buffers_for_range(
                   Unwrap(previous_frame),
                   Unwrap(previous_frame).section_ranges[section_idx + 1])
         THEN Some(Unwrap(previous_frame).section_ranges[section_idx + 1])
         ELSE None
    ELSE None

\* The cache entry of the pane has the key of this frame (line 275).
CandidateSkippable(prev_panes, pane, key) ==
    pane \in DOMAIN prev_panes /\ prev_panes[pane].cache_key = key

\* PaneFrameFor that describes the pane again whatever the cache holds.
PaneFrameFor_AlwaysDescribes(prev_panes, pane, key) ==
    describe_pane_with_snapshot(pane, key)

\* The pane frame the match on the cache entry yields (lines 274-292): the
\* cached one with its streak advanced, or a new description.
PaneFrameFor(prev_panes, pane, key) ==
    IF CandidateSkippable(prev_panes, pane, key)
    THEN [prev_panes[pane] EXCEPT !.skip_streak = @ + 1]
    ELSE describe_pane_with_snapshot(pane, key)

\* Lines 326-348: the section of the pane is pushed on the plan, the
\* outcome goes to the context, the pane frame to new_pane_frames.
PushPaneSection(acc, pane, key, candidate, pane_frame, layers1, skippable, outcome) ==
    [layers |-> layers1,
     sections |-> Append(acc.sections,
         RenderSection(
             Some(from_pane_bounds(pane_frame.bounds, ViewportWidth, ViewportHeight)),
             pane_frame.command_hash,
             snapshot_layers(acc.layers), snapshot_layers(layers1),
             skippable, pane_frame.last_execution_stats)),
     new_pane_frames |-> (pane :> pane_frame) @@ acc.new_pane_frames,
     pane_skip_chain_valid |-> acc.pane_skip_chain_valid /\ skippable,
     cofree |-> advance(acc.cofree, outcome),
     trace |-> Append(acc.trace,
         [pane |-> pane, key |-> key, candidate_skippable |-> candidate]),
     err |-> FALSE]

\* Lines 312-323: the commands were executed, with result executed.
ExecutedPane(acc, pane, key, candidate, described, executed) ==
    PushPaneSection(
        acc, pane, key, candidate,
        [described EXCEPT !.last_execution_stats = Some(stats(executed.history)),
                          !.skip_streak = 0],
        executed.layers, FALSE,
        Executed(stats(executed.history)))

\* Lines 308-324: skip the pane over prior_quad_range or execute it.
SkipOrExecute(acc, pane, key, candidate, described, prior_quad_range) ==
    IF IsSome(prior_quad_range)
    THEN PushPaneSection(
             acc, pane, key, candidate, described,
             advance_quad_counts_for_range(acc.layers, Unwrap(prior_quad_range)),
             TRUE, Skipped)
    ELSE ExecutedPane(
             acc, pane, key, candidate, described,
             execute_commands_with_history(
                 described.commands, acc.layers, PaneTag(pane, key)))

\* One iteration of the loop over the panes (lines 265-349).  fail says
\* that describing this pane returns an error.
PaneSection(acc, pane, key, prev_panes, previous_frame, fail) ==
    IF ~CandidateSkippable(prev_panes, pane, key) /\ fail
    THEN [acc EXCEPT !.err = TRUE]
    ELSE SkipOrExecute(
             acc, pane, key,
             CandidateSkippable(prev_panes, pane, key),
             PaneFrameFor(prev_panes, pane, key),
             PriorQuadRange(CandidateSkippable(prev_panes, pane, key),
                            acc.pane_skip_chain_valid, previous_frame,
                            Len(acc.sections)))

RECURSIVE PaneLoop(_, _, _, _, _, _)
PaneLoop(acc, k, inp, prev_panes, previous_frame, fail_at) ==
    IF acc.err \/ k > Len(inp.panes) THEN acc
    ELSE PaneLoop(
             PaneSection(acc, inp.panes[k], inp.keys[inp.panes[k]],
                         prev_panes, previous_frame, fail_at = k),
             k + 1, inp, prev_panes, previous_frame, fail_at)

RECURSIVE ClearLayers(_)
ClearLayers(ls) ==
    IF ls = <<>> THEN <<>>
    ELSE <<RenderLayer_clear_quad_allocation(Head(ls))>> \o ClearLayers(Tail(ls))

\* The pass after the background section (lines 239-263): the layers the
\* pass began with, cleared, and what executing the background made of them.
AfterBackground(cleared, after_background) ==
    [layers |-> after_background,
     sections |-> <<RenderSection(None, 0, snapshot_layers(cleared),
                                  snapshot_layers(after_background), FALSE, None)>>,
     new_pane_frames |-> EmptyMap,
     pane_skip_chain_valid |-> TRUE,
     cofree |-> CofreeContext_new,
     trace |-> <<>>,
     err |-> FALSE]

\* FinishPass that commits the plan without a section for the chrome.
FinishPass_NoChromeSection(acc, after_chrome, prev_panes, failed) ==
    IF failed
    THEN [ok |-> FALSE, layers |-> acc.layers, render_plan |-> None,
          prev_pane_frames |-> prev_panes, cofree |-> acc.cofree, trace |-> acc.trace]
    ELSE [ok |-> TRUE, layers |-> after_chrome,
          render_plan |-> Some([sections |-> acc.sections,
                                viewport_width |-> ViewportWidth,
                                viewport_height |-> ViewportHeight]),
          prev_pane_frames |-> acc.new_pane_frames, cofree |-> acc.cofree,
          trace |-> acc.trace]

\* The end of the pass (lines 367-458): the chrome section, executed into
\* after_chrome, and the commit; or the early return of an error, which
\* leaves render_plan None and prev_pane_frames as they were.
FinishPass(acc, after_chrome, prev_panes, failed) ==
    IF failed
    THEN [ok |-> FALSE,
          layers |-> acc.layers,
          render_plan |-> None,
          prev_pane_frames |-> prev_panes,
          cofree |-> acc.cofree,
          trace |-> acc.trace]
    ELSE [ok |-> TRUE,
          layers |-> after_chrome,
          render_plan |-> Some(
              [sections |-> Append(acc.sections,
                   RenderSection(None, 0, snapshot_layers(acc.layers),
                                 snapshot_layers(after_chrome), FALSE, None)),
               viewport_width |-> ViewportWidth,
               viewport_height |-> ViewportHeight]),
          prev_pane_frames |-> acc.new_pane_frames,
          cofree |-> acc.cofree,
          trace |-> acc.trace]

ChromeAndCommit(acc, prev_panes, chrome_fails) ==
    FinishPass(acc, execute_commands(describe_chrome, acc.layers, ChromeTag),
               prev_panes, acc.err \/ chrome_fails)

PassOverCleared(cleared, prev_panes, previous_frame, inp, fail_at) ==
    ChromeAndCommit(
        PaneLoop(AfterBackground(
                     cleared,
                     execute_commands(describe_window_background(inp.bg),
                                      cleared, BackgroundTag)),
                 1, inp, prev_panes, previous_frame, fail_at),
        prev_panes, fail_at = Len(inp.panes) + 1)

\* paint_pass as a function of the state it reads.  fail_at = 0: nothing
\* fails; fail_at = k: describing the k-th pane fails; fail_at = number of
\* panes + 1: describing the chrome fails.
paint_pass(ls, prev_panes, previous_frame, inp, fail_at) ==
    PassOverCleared(ClearLayers(ls), prev_panes, previous_frame, inp, fail_at)

(***************************************************************************)
(* allocated_more_quads                                                    *)
(***************************************************************************)
\* Rounding that always moves on to the next tile.
RoundUpQuads_NextTile(need_quads) == ((need_quads \div QuadTile) + 1) * QuadTile

\* Clearing the low seven bits without adding 127 first: rounds down.
RoundUpQuads_Down(need_quads) == need_quads - (need_quads % QuadTile)

\* (need_quads + 127) & !127: adding 127 and clearing the low seven bits.
RoundUpQuads(need_quads) ==
    (need_quads + (QuadTile - 1)) - ((need_quads + (QuadTile - 1)) % QuadTile)

reallocate_quads(layer, idx, num_quads) ==
    [layer EXCEPT !.vb[idx + 1] = compute_vertices(num_quads)]

RECURSIVE ReallocateSlots(_, _)
ReallocateSlots(layer, vb_idx) ==
    IF vb_idx >= NumSlots THEN layer
    ELSE LET need == need_more_quads(layer.vb[vb_idx + 1])
         IN  IF IsSome(need)
             THEN ReallocateSlots(
                      reallocate_quads(layer, vb_idx, RoundUpQuads(Unwrap(need))),
                      vb_idx + 1)
             ELSE ReallocateSlots(layer, vb_idx + 1)

RECURSIVE ReallocateLayers(_)
ReallocateLayers(ls) ==
    IF ls = <<>> THEN <<>>
    ELSE <<ReallocateSlots(Head(ls), 0)>> \o ReallocateLayers(Tail(ls))

allocated_more_quads(ls) ==
    [layers |-> ReallocateLayers(ls),
     allocated |-> \E i \in 1 .. Len(ls) : \E s \in 1 .. NumSlots :
                       IsSome(need_more_quads(ls[i].vb[s]))]

(***************************************************************************)
(* Draw pass                                                               *)
(***************************************************************************)
\* One draw_indexed call: the index range, the section it is for (-1 for
\* the full-range draws), and the vertex buffer bound when it is issued.
DrawCall(zindex, sub_idx, section_idx, first, last, source, buffer) ==
    [zindex |-> zindex, sub_idx |-> sub_idx, section |-> section_idx,
     first |-> first, last |-> last, source |-> source, buffer |-> buffer]

\* The range a section is drawn with and whether it is replayed from the
\* previous frame: lines 37-56 of draw_layer_sections.
SectionRange(section, section_idx, zindex, sub_idx, previous_frame) ==
    IF section.skippable
    THEN IF /\ IsSome(previous_frame)
            /\ IsSome(FrameBuffers_section_quad_range(
                          Unwrap(previous_frame), section_idx, zindex, sub_idx))
            /\ IsSome(FrameBuffers_buffer(Unwrap(previous_frame), zindex, sub_idx))
         THEN [use_previous_frame |-> TRUE,
               range |-> FrameBuffers_section_quad_range(
                             Unwrap(previous_frame), section_idx, zindex, sub_idx)]
         ELSE [use_previous_frame |-> FALSE, range |-> None]
    ELSE [use_previous_frame |-> FALSE,
          range |-> quad_range_for_section(section.quad_range, zindex, sub_idx)]

ScissorOk(section, plan) ==
    IF IsSome(section.scissor)
    THEN Unwrap(section.scissor).width # 0 /\ Unwrap(section.scissor).height # 0
    ELSE plan.viewport_width > 0 /\ plan.viewport_height > 0

\* has_range of lines 32-35.
MarkRange(acc, section, zindex, sub_idx) ==
    [acc EXCEPT !.has_range =
                    @ \/ IsSome(quad_range_for_section(section.quad_range, zindex, sub_idx))]

\* Lines 76-83: a replayed section binds the stored buffer of the slot.
BindPrevious(acc, sr, previous_frame, zindex, sub_idx) ==
    IF sr.use_previous_frame
    THEN [acc EXCEPT !.bound =
              Unwrap(FrameBuffers_buffer(Unwrap(previous_frame), zindex, sub_idx))]
    ELSE acc

\* Lines 85-91: draw_indexed reads the vertex buffer that is bound.
DrawIndexed(acc, zindex, sub_idx, section_idx, sr) ==
    [acc EXCEPT !.calls =
                    Append(@, DrawCall(zindex, sub_idx, section_idx,
                                       Unwrap(sr.range)[1] * INDICES_PER_QUAD,
                                       Unwrap(sr.range)[2] * INDICES_PER_QUAD,
                                       IF sr.use_previous_frame THEN "previous"
                                                                ELSE "current",
                                       acc.bound)),
                !.drew = TRUE]

\* RebindCurrent that leaves the bound buffer as it is.
RebindCurrent_Keeps(acc, sr, current_vertex_buffer) == acc

\* Lines 93-95: after a replay the current buffer is bound again.
RebindCurrent(acc, sr, current_vertex_buffer) ==
    IF sr.use_previous_frame
    THEN [acc EXCEPT !.bound = current_vertex_buffer]
    ELSE acc

\* Lines 58-96 for one section, sr being its range and source: the
\* scissor test, the binding of the buffer, the draw_indexed call.
DrawSection(acc, k, section, plan, zindex, sub_idx, current_vertex_buffer, previous_frame, sr) ==
    IF IsSome(sr.range) /\ ScissorOk(section, plan)
    THEN RebindCurrent(
             DrawIndexed(
                 BindPrevious(MarkRange(acc, section, zindex, sub_idx),
                              sr, previous_frame, zindex, sub_idx),
                 zindex, sub_idx, k - 1, sr),
             sr, current_vertex_buffer)
    ELSE MarkRange(acc, section, zindex, sub_idx)

RECURSIVE SectionLoop(_, _, _, _, _, _, _)
SectionLoop(acc, k, plan, zindex, sub_idx, current_vertex_buffer, previous_frame) ==
    IF k > Len(plan.sections) THEN acc
    ELSE SectionLoop(
             DrawSection(acc, k, plan.sections[k], plan, zindex, sub_idx,
                         current_vertex_buffer, previous_frame,
                         SectionRange(plan.sections[k], k - 1, zindex, sub_idx,
                                      previous_frame)),
             k + 1, plan, zindex, sub_idx, current_vertex_buffer, previous_frame)

\* Lines 100-103: the draw of the whole slot when no section has a range.
\* FallbackDraw without the test of has_range.
FallbackDraw_IgnoresRanges(acc, zindex, sub_idx, fallback_index_count, current_vertex_buffer) ==
    IF ~acc.drew /\ fallback_index_count > 0
    THEN Append(acc.calls,
                DrawCall(zindex, sub_idx, -1, 0, fallback_index_count,
                         "current", acc.bound))
    ELSE acc.calls

FallbackDraw(acc, zindex, sub_idx, fallback_index_count, current_vertex_buffer) ==
    IF ~acc.drew /\ ~acc.has_range /\ fallback_index_count > 0
    THEN Append(acc.calls,
                DrawCall(zindex, sub_idx, -1, 0, fallback_index_count,
                         "current", acc.bound))
    ELSE acc.calls

draw_layer_sections(plan, zindex, sub_idx, fallback_index_count, current_vertex_buffer, previous_frame) ==
    FallbackDraw(
        SectionLoop([calls |-> <<>>, drew |-> FALSE, has_range |-> FALSE,
                     bound |-> current_vertex_buffer],
                    1, plan, zindex, sub_idx, current_vertex_buffer, previous_frame),
        zindex, sub_idx, fallback_index_count, current_vertex_buffer)

\* The buffer recreate() hands out: the one the pass wrote into.
WrittenBuffer(vb) == [data |-> vb.bufs[vb.index + 1], capacity |-> vb.capacity]

\* Lines 262-274: the draw calls of one slot.
SlotCalls(layer, idx, plan, previous_frame) ==
    IF IsSome(plan)
    THEN draw_layer_sections(Unwrap(plan), layer.zindex, idx,
                             vertex_index_count(layer.vb[idx + 1]),
                             WrittenBuffer(layer.vb[idx + 1]), previous_frame)
    ELSE <<DrawCall(layer.zindex, idx, -1, 0, vertex_index_count(layer.vb[idx + 1]),
                    "current", WrittenBuffer(layer.vb[idx + 1]))>>

\* Lines 215-278 for a slot with vertices: recreate() leaves a fresh buffer
\* in the slot, the calls are issued, the written buffer goes to
\* next_frame_buffers.
DrawSlot(acc, layer_pos, idx, layer, calls) ==
    [acc EXCEPT
        !.layers[layer_pos].vb[idx + 1].bufs[layer.vb[idx + 1].index + 1] = EmptyBuffer,
        !.buffers = Append(@, [zindex |-> layer.zindex, sub_idx |-> idx,
                               buffer |-> WrittenBuffer(layer.vb[idx + 1])]),
        !.calls = @ \o calls]

\* SlotStep without the test of vertex_count.
SlotStep_AlwaysDraws(acc, layer_pos, idx, plan, previous_frame) ==
    DrawSlot(acc, layer_pos, idx, acc.layers[layer_pos],
             SlotCalls(acc.layers[layer_pos], idx, plan, previous_frame))

\* Lines 213-215: a slot without vertices is neither drawn nor stored.
SlotStep(acc, layer_pos, idx, plan, previous_frame) ==
    IF acc.layers[layer_pos].vb[idx + 1].next_quad > 0
    THEN DrawSlot(acc, layer_pos, idx, acc.layers[layer_pos],
                  SlotCalls(acc.layers[layer_pos], idx, plan, previous_frame))
    ELSE acc

\* vb.next_index() (line 280).
RotateSlot(acc, layer_pos, idx) ==
    [acc EXCEPT !.layers[layer_pos].vb[idx + 1] = next_index(@)]

\* The loop over the three slots of one layer (lines 211-281).
RECURSIVE DrawSlots(_, _, _, _, _)
DrawSlots(acc, layer_pos, idx, plan, previous_frame) ==
    IF idx >= NumSlots THEN acc
    ELSE DrawSlots(
             RotateSlot(SlotStep(acc, layer_pos, idx, plan, previous_frame),
                        layer_pos, idx),
             layer_pos, idx + 1, plan, previous_frame)

RECURSIVE DrawLayers(_, _, _, _)
DrawLayers(acc, layer_pos, plan, previous_frame) ==
    IF layer_pos > Len(acc.layers) THEN acc
    ELSE DrawLayers(DrawSlots(acc, layer_pos, 0, plan, previous_frame),
                    layer_pos + 1, plan, previous_frame)

\* Lines 284-291: the store takes the buffers that were drawn and the
\* ranges of the plan.
StoreFrame(acc, plan, inp) ==
    [layers |-> acc.layers,
     calls |-> acc.calls,
     prev_frame_buffers |-> Some(
         [buffers |-> acc.buffers,
          section_ranges |->
              IF IsSome(plan)
              THEN [k \in 1 .. Len(Unwrap(plan).sections) |->
                        Unwrap(plan).sections[k].quad_range]
              ELSE <<>>,
          panes |-> IF IsSome(plan) THEN inp.panes ELSE <<>>,
          keys |-> IF IsSome(plan)
                   THEN [k \in 1 .. Len(inp.panes) |-> inp.keys[inp.panes[k]]]
                   ELSE <<>>])]

call_draw_webgpu(ls, plan, previous_frame, inp) ==
    StoreFrame(DrawLayers([layers |-> ls, buffers |-> <<>>, calls |-> <<>>],
                          1, plan, previous_frame),
               plan, inp)

(***************************************************************************)
(* paint_impl as a state machine                                           *)
(***************************************************************************)
PaneLists == {<<1>>, <<1, 2>>}
BackgroundSizes == {1, 2}

\* The frames of Spec differ in their panes and in the panes' content;
\* the window background is one quad in each.
Inputs ==
    {[panes |-> ps, keys |-> ks, bg |-> 1] :
        ps \in PaneLists, ks \in [PaneIds -> CacheKeys]}

\* Keys of panes that are not shown are irrelevant: keep them at 1.
WellFormed(inp) ==
    \A p \in PaneIds : (\A k \in 1 .. Len(inp.panes) : inp.panes[k] # p) => inp.keys[p] = 1

NoInput == [panes |-> <<>>, keys |-> [p \in PaneIds |-> 1], bg |-> 1]
NoLog == [overflowed |-> FALSE, failed |-> FALSE, gave_up |-> FALSE]

\* paint_impl has not returned yet.
NoResult == [call_draw |-> "None", gave_up |-> FALSE, returned |-> "None"]

\* What paint_impl leaves its caller with: its return type is (), whatever
\* call_draw returned (self.call_draw().ok()) and whether the 'pass loop
\* ended because allocated_more_quads failed.
PaintResult(call_draw_result, log) ==
    [call_draw |-> call_draw_result, gave_up |-> log.gave_up, returned |-> "Unit"]

(***************************************************************************)
(* One slot's wgpu vertex buffers by identity.  device.created counts the  *)
(* create_buffer calls and the n-th buffer created is buffer n;            *)
(* device.store holds the buffers of the slot in prev_frame_buffers,       *)
(* device.handed every buffer a render pass was ever given, device.mapped  *)
(* the buffer the last pass mapped for allocation (0 before any).          *)
(***************************************************************************)
MaxBuffers == 8
MaxSlotQuads == 2

\* RenderLayer::compute_vertices: three allocate_vertex_buffer calls, each
\* a WebGpuVertexBuffer::new, index 0 and cursor 0.
compute_vertex_buffers(created) ==
    [index |-> 0, bufs |-> <<created + 1, created + 2, created + 3>>, next_quad |-> 0]

Device_new ==
    [created |-> 3, vb |-> compute_vertex_buffers(0), mapped |-> 0,
     store |-> {}, handed |-> {}]

\* recreate() that hands out the buffer and keeps it in the slot as well.
recreate_KeepsBuffer(dev) ==
    [dev EXCEPT !.created = @ + 1,
                !.store = {dev.vb.bufs[dev.vb.index + 1]},
                !.handed = @ \cup {dev.vb.bufs[dev.vb.index + 1]}]

\* vertices.webgpu_mut().recreate() on the current instance: a new buffer
\* is created and swapped in, the old one is returned; call_draw_webgpu
\* unmaps it, binds it and pushes it to next_frame_buffers.
recreate(dev) ==
    [dev EXCEPT !.created = @ + 1,
                !.vb.bufs[dev.vb.index + 1] = dev.created + 1,
                !.store = {dev.vb.bufs[dev.vb.index + 1]},
                !.handed = @ \cup {dev.vb.bufs[dev.vb.index + 1]}]

\* call_draw_webgpu for the slot: recreate() if it has vertices, then
\* next_index(); prev_frame_buffers is replaced by what this call pushed.
draw_slot(dev) ==
    [(IF dev.vb.next_quad > 0 THEN recreate(dev) ELSE [dev EXCEPT !.store = {}])
        EXCEPT !.vb = next_index(@)]

\* A pass: clear_quad_allocation(), then quads allocations through map(),
\* which maps bufs[index] (current_vb_mut).
PassMapsSlot ==
    /\ \E quads \in 0 .. MaxSlotQuads :
          device' = [device EXCEPT
                        !.vb.next_quad = quads,
                        !.mapped = IF quads > 0
                                   THEN device.vb.bufs[device.vb.index + 1] ELSE @]
    /\ UNCHANGED <<pc, num_frames, input, pass, layers, render_plan, prev_pane_frames,
                   prev_frame_buffers, cofree, draw_calls, frame_start, frame_log,
                   run, faults, pass_trace, paint_result, allow_images, probe, applied>>

\* reallocate_quads: the slot gets the TripleVertexBuffer of a new
\* compute_vertices.
ReallocatesSlot ==
    /\ device.created + 3 <= MaxBuffers
    /\ device' = [device EXCEPT !.created = @ + 3,
                                !.vb = compute_vertex_buffers(device.created)]
    /\ UNCHANGED <<pc, num_frames, input, pass, layers, render_plan, prev_pane_frames,
                   prev_frame_buffers, cofree, draw_calls, frame_start, frame_log,
                   run, faults, pass_trace, paint_result, allow_images, probe, applied>>

DrawsSlot ==
    /\ device.created + 1 <= MaxBuffers
    /\ device' = draw_slot(device)
    /\ UNCHANGED <<pc, num_frames, input, pass, layers, render_plan, prev_pane_frames,
                   prev_frame_buffers, cofree, draw_calls, frame_start, frame_log,
                   run, faults, pass_trace, paint_result, allow_images, probe, applied>>

NextBuffers ==
    \/ PassMapsSlot
    \/ ReallocatesSlot
    \/ DrawsSlot

\* No command IR operation is under way in the paint path.
NoProbe == [frame |-> <<>>, clip |-> <<>>, f |-> "none"]
NotApplied == [op |-> "none", value |-> <<>>]

NoRun == [frames |-> 0, key |-> 0, ctx |-> CofreeContext_new, outcomes |-> <<>>]

Init ==
    /\ pc = "idle"
    /\ num_frames = 0
    /\ input = NoInput
    /\ pass = 0
    /\ layers = RenderState_new
    /\ render_plan = None
    /\ prev_pane_frames = EmptyMap
    /\ prev_frame_buffers = None
    /\ cofree = CofreeContext_new
    /\ draw_calls = <<>>
    /\ frame_start = EmptyMap
    /\ frame_log = NoLog
    /\ run = NoRun
    /\ faults = 0
    /\ pass_trace = <<>>
    /\ paint_result = NoResult
    /\ allow_images = "Yes"
    /\ probe = NoProbe
    /\ applied = NotApplied
    /\ device = Device_new

\* paint_impl up to the 'pass loop, for the frame input inp, which stays
\* the same for the whole call.
Begin(inp) ==
    /\ pc = "idle"
    /\ num_frames' = num_frames + 1
    /\ input' = inp
    /\ pc' = "pass"
    /\ pass' = 0
    /\ draw_calls' = <<>>
    /\ frame_start' = prev_pane_frames
    /\ frame_log' = NoLog
    /\ allow_images' = "Yes"
    /\ UNCHANGED <<layers, render_plan, prev_pane_frames, prev_frame_buffers,
                   cofree, faults, pass_trace, paint_result, probe, applied, device>>

\* The exploration stops after MaxFrames frames; a run that met a
\* recoverable error stops one frame earlier for each.
BeginPaint ==
    /\ num_frames + faults < MaxFrames
    /\ \E inp \in Inputs : WellFormed(inp) /\ Begin(inp)
    /\ UNCHANGED run

ApplyPass(r) ==
    /\ layers' = r.layers
    /\ render_plan' = r.render_plan
    /\ prev_pane_frames' = r.prev_pane_frames
    /\ cofree' = r.cofree
    /\ pass_trace' = r.trace

FailedPass(r) == ~r.ok /\ ApplyPass(r)

\* paint_pass returned Ok: on to allocated_more_quads.
PaintPassOk ==
    /\ pc = "pass"
    /\ ApplyPass(paint_pass(layers, prev_pane_frames, prev_frame_buffers, input, 0))
    /\ pc' = "alloc"
    /\ UNCHANGED <<num_frames, input, pass, prev_frame_buffers, draw_calls,
                   frame_start, frame_log, run, faults, paint_result, allow_images, probe, applied, device>>

\* paint_pass returned OutOfTextureSpace (and the atlas was recreated) or
\* ClearShapeCache: the loop goes round again.
PaintPassRetry ==
    /\ pc = "pass"
    /\ faults < MaxFaults
    /\ \E fail_at \in 1 .. (Len(input.panes) + 1) :
          FailedPass(paint_pass(layers, prev_pane_frames, prev_frame_buffers,
                                input, fail_at))
    /\ pc' = "pass"
    /\ pass' = pass + 1
    /\ faults' = faults + 1
    /\ frame_log' = [frame_log EXCEPT !.failed = TRUE]
    /\ UNCHANGED <<num_frames, input, prev_frame_buffers, draw_calls, frame_start, run,
                   paint_result, allow_images, probe, applied, device>>

\* paint_pass returned any other error while describing section fail_at:
\* break 'pass.
PassFatal(fail_at) ==
    /\ pc = "pass"
    /\ FailedPass(paint_pass(layers, prev_pane_frames, prev_frame_buffers, input, fail_at))
    /\ pc' = "draw"
    /\ frame_log' = [frame_log EXCEPT !.failed = TRUE]
    /\ UNCHANGED <<num_frames, input, pass, prev_frame_buffers, draw_calls, frame_start,
                   run, faults, paint_result, allow_images, probe, applied, device>>

\* The description of the chrome fails.
PaintPassFatal == PassFatal(Len(input.panes) + 1)

\* allocated_more_quads() returned Ok(true): next pass.
AllocatedMore ==
    /\ pc = "alloc"
    /\ allocated_more_quads(layers).allocated
    /\ layers' = allocated_more_quads(layers).layers
    /\ pc' = "pass"
    /\ pass' = pass + 1
    /\ frame_log' = [frame_log EXCEPT !.overflowed = TRUE]
    /\ UNCHANGED <<num_frames, input, render_plan, prev_pane_frames, prev_frame_buffers, cofree,
                   draw_calls, frame_start, run, faults, pass_trace, paint_result, allow_images, probe, applied, device>>

\* allocated_more_quads() returned Ok(false): break 'pass.
AllocatedNone ==
    /\ pc = "alloc"
    /\ ~allocated_more_quads(layers).allocated
    /\ layers' = allocated_more_quads(layers).layers
    /\ pc' = "draw"
    /\ UNCHANGED <<num_frames, input, pass, render_plan, prev_pane_frames, prev_frame_buffers,
                   cofree, draw_calls, frame_start, frame_log, run, faults, pass_trace,
                   paint_result, allow_images, probe, applied, device>>

\* allocated_more_quads() returned Err: reallocate_quads failed for the first
\* slot that needed more quads; the error is logged and the loop is left.
AllocatedFails ==
    /\ pc = "alloc"
    /\ faults < MaxFaults
    /\ allocated_more_quads(layers).allocated
    /\ faults' = faults + 1
    /\ pc' = "draw"
    /\ frame_log' = [frame_log EXCEPT !.gave_up = TRUE]
    /\ UNCHANGED <<num_frames, input, pass, layers, render_plan, prev_pane_frames,
                   prev_frame_buffers, cofree, draw_calls, frame_start, run, pass_trace,
                   paint_result, allow_images, probe, applied, device>>

ApplyDraw(r) ==
    /\ layers' = r.layers
    /\ prev_frame_buffers' = r.prev_frame_buffers
    /\ draw_calls' = r.calls

\* call_draw, and the end of paint_impl.
Draw ==
    /\ pc = "draw"
    /\ ApplyDraw(call_draw_webgpu(layers, render_plan, prev_frame_buffers, input))
    /\ pc' = "idle"
    /\ input' = NoInput
    /\ pass' = 0
    /\ frame_start' = EmptyMap
    /\ frame_log' = NoLog
    /\ paint_result' = PaintResult("Ok", frame_log)
    /\ UNCHANGED <<num_frames, render_plan, prev_pane_frames, cofree, pass_trace, allow_images, probe, applied, device>>

CallDraw == Draw /\ UNCHANGED <<run, faults>>

\* get_current_texture() failed: call_draw returns before touching anything.
CallDrawFails ==
    /\ pc = "draw"
    /\ faults < MaxFaults
    /\ faults' = faults + 1
    /\ pc' = "idle"
    /\ input' = NoInput
    /\ pass' = 0
    /\ frame_start' = EmptyMap
    /\ frame_log' = NoLog
    /\ paint_result' = PaintResult("Err", frame_log)
    /\ UNCHANGED <<num_frames, layers, render_plan, prev_pane_frames,
                   prev_frame_buffers, cofree, draw_calls, run, pass_trace, allow_images, probe, applied, device>>

Next ==
    \/ BeginPaint
    \/ PaintPassOk
    \/ PaintPassRetry
    \/ PaintPassFatal
    \/ AllocatedMore
    \/ AllocatedNone
    \/ AllocatedFails
    \/ CallDraw
    \/ CallDrawFails

Spec == Init /\ [][Next]_vars

SpecBuffers == Init /\ [][NextBuffers]_vars

(***************************************************************************)
(* Steady frames: one pane whose cache key and commands never change,      *)
(* painted and drawn MaxRun times from the initial state, nothing          *)
(* failing.  run.ctx is a CofreeContext advanced with the pane's outcome   *)
(* of each frame that was drawn.                                           *)
(***************************************************************************)
SteadyInput(key, bg) ==
    [panes |-> <<1>>, keys |-> [p \in PaneIds |-> IF p = 1 THEN key ELSE 1], bg |-> bg]

SteadyBegin ==
    /\ run.frames < MaxRun
    /\ \E key \in CacheKeys, bg \in BackgroundSizes :
          /\ run.frames > 0 => key = run.key
          /\ Begin(SteadyInput(key, bg))
          /\ run' = [run EXCEPT !.key = key]

SteadyDraw ==
    /\ Draw
    /\ run' = [run EXCEPT !.frames = @ + 1,
                          !.ctx = advance(@, cofree.prior_outcomes[1]),
                          !.outcomes = Append(@, cofree.prior_outcomes[1])]
    /\ UNCHANGED faults

NextSteady ==
    \/ SteadyBegin
    \/ PaintPassOk
    \/ AllocatedMore
    \/ AllocatedNone
    \/ SteadyDraw

SpecSteady == Init /\ [][NextSteady]_vars

(***************************************************************************)
(* allocated_more_quads on its own: the state after a pass that asked     *)
(* the first slot of the main layer for up to MaxProbeQuads quads, with or *)
(* without an overfull third slot and a second layer.                      *)
(***************************************************************************)
ProbeTag == [sec |-> 0, key |-> 0]

\* A slot of capacity num_quads after a pass made n calls of allocate():
\* the quads below the capacity are written, the cursor is n, and the
\* calls beyond the capacity wrote quad 0 again.
AllocatedSlot(num_quads, n) ==
    [compute_vertices(num_quads) EXCEPT
        !.bufs[1] = [q \in 1 .. Min(n, num_quads) |-> ProbeTag],
        !.next_quad = n,
        !.allocs = n,
        !.wrapped = n > num_quads]

ProbeLayer(num_quads, zindex, quads) ==
    [zindex |-> zindex,
     vb |-> <<AllocatedSlot(SideCapacity, quads[1]),
              AllocatedSlot(num_quads, quads[2]),
              AllocatedSlot(SideCapacity, quads[3])>>]

ProbeSideQuads == {0, SideCapacity + 1}
ProbeDeepQuads == {0, NewLayerCapacity, NewLayerCapacity + 1}

ProbeLayers(first, third, deep) ==
    <<ProbeLayer(MainLayerCapacity, 0, <<first, 5, third>>)>>
    \o (IF deep = 0 THEN <<>>
        ELSE <<ProbeLayer(NewLayerCapacity, 1, <<0, deep, 0>>)>>)

InitAlloc ==
    /\ pc = "alloc"
    /\ num_frames = 1
    /\ input = NoInput
    /\ pass = 0
    /\ \E first \in 0 .. MaxProbeQuads, third \in ProbeSideQuads, deep \in ProbeDeepQuads :
          layers = ProbeLayers(first, third, deep)
    /\ render_plan = None
    /\ prev_pane_frames = EmptyMap
    /\ prev_frame_buffers = None
    /\ cofree = CofreeContext_new
    /\ draw_calls = <<>>
    /\ frame_start = EmptyMap
    /\ frame_log = NoLog
    /\ run = NoRun
    /\ faults = 0
    /\ pass_trace = <<>>
    /\ paint_result = NoResult
    /\ allow_images = "Yes"
    /\ probe = NoProbe
    /\ applied = NotApplied
    /\ device = Device_new

NextAlloc ==
    \/ AllocatedMore
    \/ AllocatedNone

SpecAlloc == InitAlloc /\ [][NextAlloc]_vars

(***************************************************************************)
(* The error arms of the 'pass loop on their own.  The loop is            *)
(* `for pass in 0..` and the code only asks whether pass is 0, so a       *)
(* repeated pass keeps its number up to MaxPass and goes round 1 ..       *)
(* MaxPass from there; nothing else limits how often a pass is repeated.  *)
(* The process always takes its next step; which result a pass returns   *)
(* is not up to the scheduler.                                            *)
(***************************************************************************)
MaxPass == 2

MaxRetryFrames == 1

NextPassNumber(p) == IF p < MaxPass THEN p + 1 ELSE 1

\* The AllowImage that follows a failed recreate_texture_atlas.
DegradeImages(allow) ==
    CASE allow = "Yes" -> "Scale2"
      [] allow = "Scale2" -> "Scale4"
      [] allow = "Scale4" -> "Scale8"
      [] OTHER -> "No"

\* paint_pass returned OutOfTextureSpace and recreate_texture_atlas
\* returned Ok, or paint_pass returned ClearShapeCache and the shape caches
\* were cleared: the loop goes round again.
PassRetried ==
    /\ pc = "pass"
    /\ \E fail_at \in 1 .. (Len(input.panes) + 1) :
          FailedPass(paint_pass(layers, prev_pane_frames, prev_frame_buffers,
                                input, fail_at))
    /\ pc' = "pass"
    /\ pass' = NextPassNumber(pass)
    /\ frame_log' = [frame_log EXCEPT !.failed = TRUE]
    /\ UNCHANGED <<num_frames, input, prev_frame_buffers, draw_calls, frame_start, run,
                   faults, paint_result, allow_images, probe, applied, device>>

\* paint_pass returned OutOfTextureSpace and recreate_texture_atlas
\* returned Err: images are degraded one step and the pass is repeated, or,
\* with images already off, the loop is left.
TextureDegraded ==
    /\ pc = "pass"
    /\ \E fail_at \in 1 .. (Len(input.panes) + 1) :
          FailedPass(paint_pass(layers, prev_pane_frames, prev_frame_buffers,
                                input, fail_at))
    /\ IF allow_images = "No"
       THEN pc' = "draw" /\ UNCHANGED <<pass, allow_images>>
       ELSE /\ pc' = "pass"
            /\ pass' = NextPassNumber(pass)
            /\ allow_images' = DegradeImages(allow_images)
    /\ frame_log' = [frame_log EXCEPT !.failed = TRUE]
    /\ UNCHANGED <<num_frames, input, prev_frame_buffers, draw_calls, frame_start, run,
                   faults, paint_result, probe, applied, device>>

\* paint_impl is called, for at most MaxRetryFrames frames.
RetryBegin ==
    /\ num_frames < MaxRetryFrames
    /\ \E inp \in Inputs : WellFormed(inp) /\ Begin(inp)
    /\ UNCHANGED run

NextRetry ==
    \/ RetryBegin
    \/ PaintPassOk
    \/ PassRetried
    \/ TextureDegraded
    \/ AllocatedMore
    \/ AllocatedNone
    \/ CallDraw

\* Some step of a paint_impl in progress: each of them moves the position
\* in the loop or the pass number.
LoopStep ==
    /\ pc # "idle"
    /\ pc' \in {"pass", "alloc", "draw", "idle"}
    /\ pass' \in {0, 1, pass, pass + 1}

SpecRetry == Init /\ [][NextRetry]_vars /\ WF_<<pc, pass>>(LoopStep)

(***************************************************************************)
(* Frames drawn from the plan of execute_frame: describe_frame describes  *)
(* the panes on screen, execute_frame executes every section and marks a  *)
(* pane skippable when its fingerprint is the one recorded for the pane,  *)
(* call_draw draws the plan.  What hands the plan to call_draw is not     *)
(* part of the sources: the layers are cleared before each frame, as      *)
(* paint_pass does, and prev_command_hashes holds the fingerprints of the *)
(* panes of the frame executed before.                                    *)
(***************************************************************************)
MaxExecFrames == 2

\* The frames show pane 1, panes 1 and 2, or pane 2 alone.
FrameInputs ==
    {[panes |-> ps, keys |-> ks, bg |-> 1] :
        ps \in PaneLists \cup {<<2>>}, ks \in [PaneIds -> CacheKeys]}

describe_frame(inp) ==
    [background |-> describe_window_background(inp.bg),
     panes |-> [k \in 1 .. Len(inp.panes) |->
                   describe_pane_with_snapshot(inp.panes[k], inp.keys[inp.panes[k]])],
     chrome |-> [tab_bar |-> describe_chrome, splits |-> <<>>, borders |-> <<>>,
                 modal |-> <<>>]]

\* prev_command_hashes.get(&pane_id).map_or(false, |p| *p == command_hash)
HashSkippable(prev_command_hashes, pane_frame) ==
    /\ pane_frame.pane_id \in DOMAIN prev_command_hashes
    /\ prev_command_hashes[pane_frame.pane_id] = pane_frame.command_hash

\* The section of commands executed on the layers before, with result
\* executed.
FrameSection(scissor, content_hash, before, executed, skippable) ==
    RenderSection(scissor, content_hash, snapshot_layers(before),
                  snapshot_layers(executed.layers), skippable,
                  Some(stats(executed.history)))

FrameBackground(ls, executed) ==
    [layers |-> executed.layers,
     sections |-> <<FrameSection(None, 0, ls, executed, FALSE)>>]

ExecutedPaneFrame(acc, pane_frame, skippable, executed) ==
    [layers |-> executed.layers,
     sections |-> Append(acc.sections,
         FrameSection(Some(from_pane_bounds(pane_frame.bounds, ViewportWidth,
                                            ViewportHeight)),
                      pane_frame.command_hash, acc.layers, executed, skippable))]

execute_pane_frame(pane_frame, ls) ==
    execute_commands_with_history(pane_frame.commands, ls,
                                  PaneTag(pane_frame.pane_id, pane_frame.cache_key))

RECURSIVE FramePaneLoop(_, _, _, _)
FramePaneLoop(acc, k, frame, prev_command_hashes) ==
    IF k > Len(frame.panes) THEN acc
    ELSE FramePaneLoop(
             ExecutedPaneFrame(acc, frame.panes[k],
                               HashSkippable(prev_command_hashes, frame.panes[k]),
                               execute_pane_frame(frame.panes[k], acc.layers)),
             k + 1, frame, prev_command_hashes)

execute_chrome_frame(chrome_frame, ls) ==
    execute_commands_with_history_mut(
        chrome_frame.modal,
        execute_commands_with_history_mut(
            chrome_frame.borders,
            execute_commands_with_history_mut(
                chrome_frame.splits,
                execute_commands_with_history_mut(
                    chrome_frame.tab_bar,
                    [layers |-> ls, history |-> ExecutionHistory_new], ChromeTag),
                ChromeTag),
            ChromeTag),
        ChromeTag)

\* The chrome section, executed on the layers the panes left, and the plan.
FrameChrome(acc, chrome_frame) ==
    [layers |-> execute_chrome_frame(chrome_frame, acc.layers).layers,
     render_plan |->
         [sections |-> Append(acc.sections,
                              FrameSection(None, 0, acc.layers,
                                           execute_chrome_frame(chrome_frame, acc.layers),
                                           FALSE)),
          viewport_width |-> ViewportWidth,
          viewport_height |-> ViewportHeight]]

execute_frame(frame, ls, prev_command_hashes) ==
    FrameChrome(
        FramePaneLoop(
            FrameBackground(ls, execute_commands_with_history(frame.background, ls,
                                                              BackgroundTag)),
            1, frame, prev_command_hashes),
        frame.chrome)

\* The fingerprints recorded for the panes of a frame.
CommandHashes(pane_frames) ==
    [p \in DOMAIN pane_frames |-> pane_frames[p].command_hash]

PaneFramesOf(frame) ==
    [p \in {frame.panes[k].pane_id : k \in 1 .. Len(frame.panes)} |->
        frame.panes[CHOOSE k \in 1 .. Len(frame.panes) : frame.panes[k].pane_id = p]]

ApplyFrame(frame, r) ==
    /\ layers' = r.layers
    /\ render_plan' = Some(r.render_plan)
    /\ prev_pane_frames' = PaneFramesOf(frame)

\* A frame is described and executed; its plan is the one to draw.
ExecuteFrame ==
    /\ pc = "idle"
    /\ num_frames < MaxExecFrames
    /\ \E inp \in FrameInputs :
          /\ WellFormed(inp)
          /\ input' = inp
          /\ ApplyFrame(describe_frame(inp),
                        execute_frame(describe_frame(inp), ClearLayers(layers),
                                      CommandHashes(prev_pane_frames)))
    /\ num_frames' = num_frames + 1
    /\ pc' = "draw"
    /\ pass' = 0
    /\ draw_calls' = <<>>
    /\ frame_start' = prev_pane_frames
    /\ frame_log' = NoLog
    /\ UNCHANGED <<prev_frame_buffers, cofree, run, faults, pass_trace, paint_result,
                   allow_images, probe, applied, device>>

NextFrame ==
    \/ ExecuteFrame
    \/ CallDraw

SpecFrame == Init /\ [][NextFrame]_vars

(***************************************************************************)
(* Command IR operations (phaedra-render-command/src/lib.rs) and the       *)
(* optics over frames (render_optics.rs).  An f32 is modelled by an        *)
(* integer: an integer of small magnitude stands for itself, which f32     *)
(* holds exactly, and NegZero stands for -0.0.                             *)
(***************************************************************************)
MaxCoord == 2

RectF(x, y, width, height) == [x |-> x, y |-> y, width |-> width, height |-> height]

LinearRgba(r, g, b, a) == <<r, g, b, a>>

HsbTransform(hue, saturation, brightness) ==
    [hue |-> hue, saturation |-> saturation, brightness |-> brightness]

TextureCoords(left, top, right, bottom) ==
    [left |-> left, top |-> top, right |-> right, bottom |-> bottom]

\* The variants of RenderCommand with all their fields.
ClearCommand(color) == [kind |-> "Clear", color |-> color]

FillRectCommand(layer, zindex, rect, color, hsv) ==
    [kind |-> "FillRect", layer |-> layer, zindex |-> zindex, rect |-> rect,
     color |-> color, hsv |-> hsv]

DrawQuadCommand(layer, zindex, position, texture, fg_color, alt_color, hsv, mode) ==
    [kind |-> "DrawQuad", layer |-> layer, zindex |-> zindex, position |-> position,
     texture |-> texture, fg_color |-> fg_color, alt_color |-> alt_color,
     hsv |-> hsv, mode |-> mode]

SetClipRectCommand(r) == [kind |-> "SetClipRect", rect |-> r]

RECURSIVE Pow2(_)
Pow2(n) == IF n = 0 THEN 1 ELSE 2 * Pow2(n - 1)

RECURSIVE Log2(_)
Log2(m) == IF m < 2 THEN 0 ELSE 1 + Log2(m \div 2)

\* The f32 nearest to the whole number v, ties to the even significand: v
\* itself below 2^24, a multiple of 2^(e-23) from 2^e on.
F32Round(v) ==
    LET m == IF v < 0 THEN 0 - v ELSE v
        u == Pow2(Max(Log2(m) - 23, 0))
        q == m \div u
        r == m % u
        n == IF 2 * r > u \/ (2 * r = u /\ q % 2 = 1) THEN (q + 1) * u ELSE q * u
    IN  IF v < 0 THEN 0 - n ELSE n

\* f32 addition and subtraction of whole numbers.
F32Add(a, b) == F32Round(a + b)
F32Sub(a, b) == F32Round(a - b)

\* euclid's Rect::intersection: the overlap of the two boxes
\* [origin, origin + size), None unless it has positive width and height.
\* In f32: to_box2d (max = origin + size), the overlap, to_rect (size =
\* max - min).
intersection(rect, other) ==
    LET min_x == Max(rect.x, other.x)
        min_y == Max(rect.y, other.y)
        max_x == Min(F32Add(rect.x, rect.width), F32Add(other.x, other.width))
        max_y == Min(F32Add(rect.y, rect.height), F32Add(other.y, other.height))
    IN  IF max_x > min_x /\ max_y > min_y
        THEN Some(RectF(min_x, min_y, F32Sub(max_x, min_x), F32Sub(max_y, min_y)))
        ELSE None

\* The texture region of the clipped part of a quad: the linear
\* reprojection of clip_to_rect, the quotients taken exactly.
ClippedTexture(position, clipped_pos, texture) ==
    LET w == position.width
        h == position.height
        tex_w == texture.right - texture.left
        tex_h == texture.bottom - texture.top
    IN  TextureCoords(
            texture.left + ((clipped_pos.x - position.x) * tex_w) \div w,
            texture.top + ((clipped_pos.y - position.y) * tex_h) \div h,
            texture.left + ((clipped_pos.x + clipped_pos.width - position.x) * tex_w) \div w,
            texture.top + ((clipped_pos.y + clipped_pos.height - position.y) * tex_h) \div h)

\* clip_to_rect forgetting to put the clipped rectangle into the FillRect.
clip_to_rect_KeepsRect(self, clip) ==
    IF self.kind = "FillRect"
    THEN (IF IsSome(intersection(self.rect, clip)) THEN self ELSE Nop)
    ELSE self

RECURSIVE ClipChildren(_, _)
RECURSIVE clip_to_rect(_, _)
clip_to_rect(self, clip) ==
    CASE self.kind = "FillRect" ->
            (LET clipped == intersection(self.rect, clip)
             IN  IF IsSome(clipped)
                 THEN FillRectCommand(self.layer, self.zindex, Unwrap(clipped),
                                      self.color, self.hsv)
                 ELSE Nop)
      [] self.kind = "DrawQuad" ->
            (LET clipped_pos == intersection(self.position, clip)
             IN  IF ~IsSome(clipped_pos) THEN Nop
                 ELSE IF self.position.width <= 0 \/ self.position.height <= 0 THEN Nop
                 ELSE DrawQuadCommand(self.layer, self.zindex, Unwrap(clipped_pos),
                                      ClippedTexture(self.position, Unwrap(clipped_pos),
                                                     self.texture),
                                      self.fg_color, self.alt_color, self.hsv, self.mode))
      [] self.kind = "Batch" ->
            (LET clipped == ClipChildren(self.cmds, clip)
             IN  IF clipped = <<>> THEN Nop ELSE Batch(clipped))
      [] OTHER -> self

\* ClipChildren without the filter.
ClipChildren_KeepsNop(cmds, clip) ==
    [k \in 1 .. Len(cmds) |-> clip_to_rect(cmds[k], clip)]

\* cmds.into_iter().map(|c| c.clip_to_rect(clip)).filter(not Nop).collect()
ClipChildren(cmds, clip) ==
    IF cmds = <<>> THEN <<>>
    ELSE LET c == clip_to_rect(Head(cmds), clip)
         IN  (IF c.kind = "Nop" THEN <<>> ELSE <<c>>) \o ClipChildren(Tail(cmds), clip)

\* -0.0, which f32 tells apart from 0.0 only by its sign bit.
NegZero == -16777216

\* The number an f32 stands for.
F32Number(v) == IF v = NegZero THEN 0 ELSE v

\* f32::to_bits: sign, biased exponent and fraction of the IEEE 754 single
\* that holds the integer v.
to_bits(v) ==
    LET m == IF F32Number(v) < 0 THEN 0 - F32Number(v) ELSE F32Number(v)
        e == Log2(m)
    IN  [sign |-> IF v = NegZero \/ F32Number(v) < 0 THEN 1 ELSE 0,
         exponent |-> IF m = 0 THEN 0 ELSE 127 + e,
         fraction |-> IF m = 0 THEN 0 ELSE (m - Pow2(e)) * Pow2(23 - e)]

\* Hasher::write_u32 of an f32's bits: the four bytes, low byte first.
write_u32(bits) ==
    <<bits.fraction % 256,
      (bits.fraction \div 256) % 256,
      (bits.exponent % 2) * 128 + bits.fraction \div 65536,
      bits.sign * 128 + bits.exponent \div 2>>

\* Hasher::write_usize / write_isize of a small non-negative value.
write_usize(n) == <<n % 256, n \div 256, 0, 0, 0, 0, 0, 0>>

\* Hasher::write_i8 and the write_u8 of a bool.
write_i8(z) == <<(z + 256) % 256>>
write_bool(b) == <<IF b THEN 1 ELSE 0>>

\* std::mem::discriminant of a RenderCommand and of a QuadMode: the
\* position of the variant in the enum.
\* Every variant given the discriminant of the first one.
CommandDiscriminant_AlwaysZero(kind) == 0

CommandDiscriminant(kind) ==
    CASE kind = "Clear" -> 0
      [] kind = "FillRect" -> 1
      [] kind = "DrawQuad" -> 2
      [] kind = "SetClipRect" -> 3
      [] kind = "BeginPostProcess" -> 4
      [] kind = "Batch" -> 5
      [] kind = "Nop" -> 6

QuadModeDiscriminant(mode) ==
    CASE mode = "Glyph" -> 0
      [] mode = "ColorEmoji" -> 1
      [] mode = "BackgroundImage" -> 2
      [] mode = "SolidColor" -> 3
      [] mode = "GrayScale" -> 4

hash_linear_rgba(color) ==
    write_u32(to_bits(color[1])) \o write_u32(to_bits(color[2]))
        \o write_u32(to_bits(color[3])) \o write_u32(to_bits(color[4]))

hash_rectf(rect) ==
    write_u32(to_bits(rect.x)) \o write_u32(to_bits(rect.y))
        \o write_u32(to_bits(rect.width)) \o write_u32(to_bits(rect.height))

hash_texture_coords(texture) ==
    write_u32(to_bits(texture.left)) \o write_u32(to_bits(texture.top))
        \o write_u32(to_bits(texture.right)) \o write_u32(to_bits(texture.bottom))

hash_opt_hsb(hsv) ==
    write_bool(IsSome(hsv))
        \o (IF IsSome(hsv)
            THEN write_u32(to_bits(Unwrap(hsv).hue))
                     \o write_u32(to_bits(Unwrap(hsv).saturation))
                     \o write_u32(to_bits(Unwrap(hsv).brightness))
            ELSE <<>>)

\* The bytes hash_command writes into the hasher for one command.
RECURSIVE HashEach(_)
RECURSIVE hash_command(_)
hash_command(self) ==
    write_usize(CommandDiscriminant(self.kind))
        \o (CASE self.kind = "Clear" -> hash_linear_rgba(self.color)
              [] self.kind = "FillRect" ->
                    write_usize(self.layer) \o write_i8(self.zindex)
                        \o hash_rectf(self.rect) \o hash_linear_rgba(self.color)
                        \o hash_opt_hsb(self.hsv)
              [] self.kind = "DrawQuad" ->
                    write_usize(self.layer) \o write_i8(self.zindex)
                        \o hash_rectf(self.position) \o hash_texture_coords(self.texture)
                        \o hash_linear_rgba(self.fg_color)
                        \o write_bool(IsSome(self.alt_color))
                        \o (IF IsSome(self.alt_color)
                            THEN hash_linear_rgba(Unwrap(self.alt_color)[1])
                                     \o write_u32(to_bits(Unwrap(self.alt_color)[2]))
                            ELSE <<>>)
                        \o hash_opt_hsb(self.hsv)
                        \o write_usize(QuadModeDiscriminant(self.mode))
              [] self.kind = "Batch" -> HashEach(self.cmds)
              [] self.kind = "SetClipRect" ->
                    write_bool(IsSome(self.rect))
                        \o (IF IsSome(self.rect) THEN hash_rectf(Unwrap(self.rect)) ELSE <<>>)
              [] OTHER -> <<>>)

\* for cmd in commands { cmd.hash_command(&mut hasher) }
HashEach(commands) ==
    IF commands = <<>> THEN <<>>
    ELSE hash_command(Head(commands)) \o HashEach(Tail(commands))

\* content_hash: DefaultHasher::finish is a function of the bytes written,
\* so the hash is given as those bytes.
content_hash(commands) == HashEach(commands)

\* The closures given to fold: "visit" appends the command it is called
\* with to the accumulator, "count_draw_quads" counts the DrawQuad commands.
FoldFn(f, acc, command) ==
    CASE f = "visit" -> Append(acc, command)
      [] f = "count_draw_quads" ->
            IF command.kind = "DrawQuad" THEN acc + 1 ELSE acc

\* RenderCommand::fold
RECURSIVE FoldEach(_, _, _)
RECURSIVE fold(_, _, _)
fold(self, init, f) ==
    IF self.kind = "Batch"
    THEN FoldEach(self.cmds, init, f)
    ELSE FoldFn(f, init, self)

\* cmds.iter().fold(init, |acc, cmd| cmd.fold(acc, f))
FoldEach(cmds, init, f) ==
    IF cmds = <<>> THEN init
    ELSE FoldEach(Tail(cmds), fold(Head(cmds), init, f), f)

RECURSIVE FoldDeepEach(_, _, _)
RECURSIVE fold_deep_command(_, _, _)
fold_deep_command(command, init, f) ==
    IF command.kind = "Batch"
    THEN FoldDeepEach(command.cmds, init, f)
    ELSE FoldFn(f, init, command)

\* commands.iter().fold(init, |acc, nested| fold_deep_command(nested, acc, f))
FoldDeepEach(commands, init, f) ==
    IF commands = <<>> THEN init
    ELSE FoldDeepEach(Tail(commands), fold_deep_command(Head(commands), init, f), f)

\* A fold that calls f for the commands of the list without descending
\* into a Batch.
RECURSIVE DeepCommands_fold_Shallow(_, _, _)
DeepCommands_fold_Shallow(source, init, f) ==
    IF source = <<>> THEN init
    ELSE DeepCommands_fold_Shallow(Tail(source), FoldFn(f, init, Head(source)), f)

DeepCommands_fold(source, init, f) == FoldDeepEach(source, init, f)

\* The closures given to traverse.  "shift" moves a DrawQuad ten to the
\* right, "blank" answers Nop, "wrap" answers a Batch holding the command
\* and "erase" an empty Batch.
TraverseFn(f, command) ==
    CASE f = "shift" ->
            IF command.kind = "DrawQuad"
            THEN DrawQuadCommand(command.layer, command.zindex,
                                 RectF(command.position.x + 10, command.position.y,
                                       command.position.width, command.position.height),
                                 command.texture, command.fg_color, command.alt_color,
                                 command.hsv, command.mode)
            ELSE command
      [] f = "blank" -> Nop
      [] f = "wrap" -> Batch(<<command>>)
      [] f = "erase" -> Batch(<<>>)

\* A traversal in progress: what it has built, and the commands the
\* FnMut closure was called with so far, in the order of the calls.
Traversed(out, calls) == [out |-> out, calls |-> calls]

PushTraversed(out, t) == Traversed(Append(out, t.out), t.calls)

IntoBatch(t) == Traversed(Batch(t.out), t.calls)

RECURSIVE TraverseDeepEach(_, _, _)
RECURSIVE traverse_deep_command(_, _, _)
traverse_deep_command(command, f, calls) ==
    IF command.kind = "Batch"
    THEN IntoBatch(TraverseDeepEach(command.cmds, f, Traversed(<<>>, calls)))
    ELSE Traversed(TraverseFn(f, command), Append(calls, command))

\* commands.into_iter().map(|nested| traverse_deep_command(nested, f)).collect()
TraverseDeepEach(commands, f, acc) ==
    IF commands = <<>> THEN acc
    ELSE TraverseDeepEach(Tail(commands), f,
                          PushTraversed(acc.out,
                                        traverse_deep_command(Head(commands), f, acc.calls)))

\* A traverse that calls f for the commands of the list without
\* descending into a Batch.
RECURSIVE DeepCommands_traverse_Shallow(_, _, _)
DeepCommands_traverse_Shallow(source, f, calls) ==
    IF source = <<>> THEN Traversed(<<>>, calls)
    ELSE LET rest == DeepCommands_traverse_Shallow(Tail(source), f,
                                                   Append(calls, Head(source)))
         IN  Traversed(<<TraverseFn(f, Head(source))>> \o rest.out, rest.calls)

DeepCommands_traverse(source, f, calls) ==
    TraverseDeepEach(source, f, Traversed(<<>>, calls))

\* The PaneCommands lens.
PaneCommands_view(source) == source.commands

PaneCommands_over(source, commands) ==
    [pane_id |-> source.pane_id,
     is_active |-> source.is_active,
     bounds |-> source.bounds,
     command_hash |-> source.command_hash,
     cache_key |-> source.cache_key,
     commands |-> commands,
     ui_items |-> source.ui_items,
     last_execution_stats |-> source.last_execution_stats,
     skip_streak |-> source.skip_streak]

\* Compose(Compose(AllPanes, PaneCommands), DeepCommands).fold: AllPanes
\* folds over source.panes, PaneCommands views each pane's commands and
\* DeepCommands folds over them.
RECURSIVE FoldPanes(_, _, _)
FoldPanes(panes, init, f) ==
    IF panes = <<>> THEN init
    ELSE FoldPanes(Tail(panes),
                   DeepCommands_fold(PaneCommands_view(Head(panes)), init, f), f)

Compose_fold(source, init, f) == FoldPanes(source.panes, init, f)

\* Compose(Compose(AllPanes, PaneCommands), DeepCommands).traverse
PaneTraversed(pane, t) == Traversed(PaneCommands_over(pane, t.out), t.calls)

RECURSIVE TraversePanes(_, _, _)
TraversePanes(panes, f, acc) ==
    IF panes = <<>> THEN acc
    ELSE TraversePanes(Tail(panes), f,
                       PushTraversed(acc.out,
                                     PaneTraversed(Head(panes),
                                                   DeepCommands_traverse(
                                                       PaneCommands_view(Head(panes)),
                                                       f, acc.calls))))

IntoFrame(source, t) ==
    Traversed([background |-> source.background,
               panes |-> t.out,
               chrome |-> source.chrome,
               postprocess |-> source.postprocess,
               ui_items |-> source.ui_items],
              t.calls)

Compose_traverse(source, f) ==
    IntoFrame(source, TraversePanes(source.panes, f, Traversed(<<>>, <<>>)))

(***************************************************************************)
(* The command IR operations applied to frames drawn from bounded sets     *)
(***************************************************************************)
\* pane(id, commands) and frame_with_panes(panes) of render_optics.rs.
TestPane(id, commands) ==
    [pane_id |-> id,
     is_active |-> TRUE,
     bounds |-> RectF(0, 0, 10, 10),
     command_hash |-> 0,
     cache_key |-> 0,
     commands |-> commands,
     ui_items |-> <<>>,
     last_execution_stats |-> None,
     skip_streak |-> 0]

frame_with_panes(panes) ==
    [background |-> <<>>,
     panes |-> panes,
     chrome |-> <<>>,
     postprocess |-> None,
     ui_items |-> <<>>]

\* draw_quad(x) and fill_rect() of render_optics.rs, with whole numbers
\* for the colour and the HSB transform.
draw_quad(x) ==
    DrawQuadCommand(0, 0, RectF(x, 0, 1, 1), TextureCoords(0, 0, 1, 1),
                    LinearRgba(1, 1, 1, 1), None, None, "Glyph")

fill_rect ==
    FillRectCommand(1, 2, RectF(1, 2, 3, 4), LinearRgba(0, 1, 2, 1),
                    Some(HsbTransform(10, 1, 2)))

\* Rectangles with small whole coordinates, empty ones included, and the
\* rectangles of the end-to-end example.
Rects ==
    {RectF(x, y, w, h) : x \in (0 - 1) .. (MaxCoord - 1), y \in (0 - 1) .. (MaxCoord - 1),
                         w \in 0 .. MaxCoord, h \in 0 .. MaxCoord}
        \cup {RectF(10, 10, 20, 20), RectF(0, 0, 15, 15), RectF(100, 100, 10, 10),
              RectF(1, 1, 0 - 1, 2)}

ClipProbes(rects) ==
    {[frame |-> frame_with_panes(<<TestPane(1, <<FillRectCommand(
                    1, 2, r, LinearRgba(0, 1, 2, 1), Some(HsbTransform(10, 1, 2)))>>)>>),
      clip |-> c, f |-> "shift"] : r \in rects, c \in rects}

\* Command lists with nested batches: the ones of the tests of
\* render_optics.rs, and lists with empty batches and markers.
TreeLists ==
    {<<draw_quad(1), Batch(<<draw_quad(2), Batch(<<draw_quad(3)>>)>>), fill_rect>>,
     <<fill_rect>>,
     <<draw_quad(1), Batch(<<draw_quad(4), fill_rect>>)>>,
     <<Batch(<<draw_quad(7)>>)>>,
     <<Batch(<<>>), Nop, Batch(<<Batch(<<>>), BeginPostProcess>>)>>,
     <<>>}

TreeProbes ==
    {[frame |-> frame_with_panes(panes), clip |-> RectF(0, 0, 2, 2), f |-> f] :
        panes \in {<<>>} \cup {<<TestPane(1, a)>> : a \in TreeLists}
                    \cup {<<TestPane(1, a), TestPane(2, b)>> : a \in TreeLists, b \in TreeLists},
        f \in {"shift", "blank", "wrap", "erase"}}

\* The elements of the lists that are hashed: every variant, with and
\* without its optional fields, and colours that differ in the sign of zero.
HashElements ==
    {Nop, BeginPostProcess,
     ClearCommand(LinearRgba(0, 0, 0, 1)), ClearCommand(LinearRgba(NegZero, 0, 0, 1)),
     SetClipRectCommand(None), SetClipRectCommand(Some(RectF(0, 0, 1, 1))),
     FillRectCommand(1, 2, RectF(1, 2, 3, 4), LinearRgba(0, 1, 2, 1), None),
     fill_rect, draw_quad(1), Batch(<<Nop>>)}

HashLists == {<<a, b, c>> : a \in HashElements, b \in HashElements, c \in HashElements}

\* cmds with the elements at i and j exchanged.
Swapped(cmds, i, j) ==
    [k \in 1 .. Len(cmds) |-> IF k = i THEN cmds[j] ELSE IF k = j THEN cmds[i] ELSE cmds[k]]

\* The command with 0.0 for every -0.0 colour component and the reverse.
FlipZero(v) == IF v = 0 THEN NegZero ELSE IF v = NegZero THEN 0 ELSE v

FlipZeros(cmd) ==
    IF cmd.kind = "Clear"
    THEN ClearCommand(LinearRgba(FlipZero(cmd.color[1]), cmd.color[2], cmd.color[3],
                                 cmd.color[4]))
    ELSE cmd

\* The lists a is compared with: itself, a with two elements exchanged,
\* and a with the sign of a zero flipped.
HashVariants(a) ==
    {a, Swapped(a, 1, 2), Swapped(a, 1, 3), Swapped(a, 2, 3),
     <<FlipZeros(a[1]), a[2], a[3]>>}

HashProbes ==
    UNION {{[frame |-> frame_with_panes(<<TestPane(1, a), TestPane(2, b)>>),
             clip |-> RectF(0, 0, 2, 2), f |-> "shift"] : b \in HashVariants(a)} :
           a \in HashLists}

\* A list holding one batch of two elements, beside the list of the two.
BatchHashProbes(elements) ==
    {[frame |-> frame_with_panes(<<TestPane(1, <<Batch(<<a, b>>)>>), TestPane(2, <<a, b>>)>>),
      clip |-> RectF(0, 0, 2, 2), f |-> "shift"] : a \in elements, b \in elements}

InitCommand ==
    /\ pc = "idle"
    /\ num_frames = 0
    /\ input = NoInput
    /\ pass = 0
    /\ layers = RenderState_new
    /\ render_plan = None
    /\ prev_pane_frames = EmptyMap
    /\ prev_frame_buffers = None
    /\ cofree = CofreeContext_new
    /\ draw_calls = <<>>
    /\ frame_start = EmptyMap
    /\ frame_log = NoLog
    /\ run = NoRun
    /\ faults = 0
    /\ pass_trace = <<>>
    /\ paint_result = NoResult
    /\ allow_images = "Yes"
    /\ probe \in ClipProbes(Rects) \cup TreeProbes \cup HashProbes
                    \cup BatchHashProbes(HashElements)
    /\ applied = NotApplied
    /\ device = Device_new

Applied(op, value) == [op |-> op, value |-> value]

\* The commands of every pane, each through clip_to_rect(clip).
ClipPane(commands, clip) ==
    [k \in 1 .. Len(commands) |-> clip_to_rect(commands[k], clip)]

ClipToRect ==
    /\ applied = NotApplied
    /\ applied' = Applied("clip_to_rect",
                          [p \in 1 .. Len(probe.frame.panes) |->
                              ClipPane(probe.frame.panes[p].commands, probe.clip)])
    /\ UNCHANGED <<pc, num_frames, input, pass, layers, render_plan, prev_pane_frames,
                   prev_frame_buffers, cofree, draw_calls, frame_start, frame_log,
                   run, faults, pass_trace, paint_result, allow_images, probe, device>>

\* content_hash of the commands of every pane.
ContentHash ==
    /\ applied = NotApplied
    /\ applied' = Applied("content_hash",
                          [p \in 1 .. Len(probe.frame.panes) |->
                              content_hash(probe.frame.panes[p].commands)])
    /\ UNCHANGED <<pc, num_frames, input, pass, layers, render_plan, prev_pane_frames,
                   prev_frame_buffers, cofree, draw_calls, frame_start, frame_log,
                   run, faults, pass_trace, paint_result, allow_images, probe, device>>

\* RenderCommand::fold of every command of every pane, and the fold of the
\* composed optic over the frame, with the closure that records its calls.
FoldPane(commands) ==
    [k \in 1 .. Len(commands) |-> fold(commands[k], <<>>, "visit")]

Fold ==
    /\ applied = NotApplied
    /\ applied' = Applied("fold",
                          [each |-> [p \in 1 .. Len(probe.frame.panes) |->
                                        FoldPane(probe.frame.panes[p].commands)],
                           deep |-> Compose_fold(probe.frame, <<>>, "visit"),
                           draw_quads |-> Compose_fold(probe.frame, 0, "count_draw_quads")])
    /\ UNCHANGED <<pc, num_frames, input, pass, layers, render_plan, prev_pane_frames,
                   prev_frame_buffers, cofree, draw_calls, frame_start, frame_log,
                   run, faults, pass_trace, paint_result, allow_images, probe, device>>

\* traverse of the composed optic with the closure probe.f, then a fold
\* of the same optic over the frame it returned.
Retraversed(t) ==
    [frame |-> t.out, calls |-> t.calls, visited |-> Compose_fold(t.out, <<>>, "visit")]

Traverse ==
    /\ applied = NotApplied
    /\ applied' = Applied("traverse", Retraversed(Compose_traverse(probe.frame, probe.f)))
    /\ UNCHANGED <<pc, num_frames, input, pass, layers, render_plan, prev_pane_frames,
                   prev_frame_buffers, cofree, draw_calls, frame_start, frame_log,
                   run, faults, pass_trace, paint_result, allow_images, probe, device>>

NextCommand ==
    \/ ClipToRect
    \/ ContentHash
    \/ Fold
    \/ Traverse

SpecCommand == InitCommand /\ [][NextCommand]_vars

(***************************************************************************)
(* The executor and layer_for_zindex on their own: command lists from a    *)
(* bounded set are executed one after the other on the layers of           *)
(* RenderState::new, and layers are asked for by depth; num_frames counts  *)
(* the calls.                                                              *)
(***************************************************************************)
MaxExecuteCalls == 3

ExecuteDepths == {-1, 0, 1}

\* Markers only, nested batches addressing several depths and slots, an
\* empty batch, and a list that overflows a side slot.
ExecuteLists ==
    {<<>>,
     <<Clear, SetClipRect, BeginPostProcess, Nop, Batch(<<Nop, Batch(<<>>)>>)>>,
     <<FillRect(0, 0, 1),
       Batch(<<DrawQuad(1, 0, 1), Batch(<<FillRect(2, 1, 2)>>), Nop>>),
       DrawQuad(1, -1, 3)>>,
     <<Batch(<<>>), DrawQuad(0, 1, 1), Clear, DrawQuad(0, 1, 1)>>,
     <<FillRect(2, -1, 1)>>,
     Repeat(FillRect(0, 0, 1), SideCapacity + 1)}

\* The layer layer_for_zindex returns: the one found, or the new one.
LayerForZindexReturned(ls, z) ==
    layer_for_zindex(ls, z)[LayerPos(layer_for_zindex(ls, z), z)]

ExecuteCall(commands, before, executed) ==
    /\ layers' = executed.layers
    /\ applied' = Applied("execute_commands_with_history",
                          [commands |-> commands, before |-> before,
                           history |-> stats(executed.history)])

\* execute_commands_with_history(commands, render_state, ..).
ExecuteCommands ==
    /\ num_frames < MaxExecuteCalls
    /\ num_frames' = num_frames + 1
    /\ \E commands \in ExecuteLists :
          ExecuteCall(commands, layers,
                      execute_commands_with_history(commands, layers, ProbeTag))
    /\ UNCHANGED <<pc, input, pass, render_plan, prev_pane_frames, prev_frame_buffers,
                   cofree, draw_calls, frame_start, frame_log, run, faults, pass_trace,
                   paint_result, allow_images, probe, device>>

\* render_state.layer_for_zindex(zindex).
LayerForZindex ==
    /\ num_frames < MaxExecuteCalls
    /\ num_frames' = num_frames + 1
    /\ \E zindex \in ExecuteDepths :
          /\ layers' = layer_for_zindex(layers, zindex)
          /\ applied' = Applied("layer_for_zindex",
                                [zindex |-> zindex, before |-> layers,
                                 returned |-> LayerForZindexReturned(layers, zindex)])
    /\ UNCHANGED <<pc, input, pass, render_plan, prev_pane_frames, prev_frame_buffers,
                   cofree, draw_calls, frame_start, frame_log, run, faults, pass_trace,
                   paint_result, allow_images, probe, device>>

NextExecute ==
    \/ ExecuteCommands
    \/ LayerForZindex

SpecExecute == Init /\ [][NextExecute]_vars

(***************************************************************************)
(* draw_layer_sections on its own, for slot 0 of depth 0: a plan of the    *)
(* background section and one pane section is pushed for pane bounds,      *)
(* quad counts and a cursor from bounded sets, over a store from a bounded *)
(* set, and the sections are drawn.                                        *)
(***************************************************************************)
MaxDrawQuads == 2

\* Pane bounds inside the viewport, with negative origins, reaching past
\* the right and the bottom edge, beyond the viewport, and without height.
DrawBounds ==
    {RectF(x, y, w, h) : x \in {0 - 50, 0 - 10, 40, ViewportWidth + 10},
                         y \in {0 - 10, 0}, w \in {30, 60}, h \in {0, 60}}

DrawSnapshot(n) == <<[zindex |-> 0, sub_idx |-> 0, quad_count |-> n]>>

DrawBuffer(n) == [data |-> [q \in 1 .. n |-> ProbeTag], capacity |-> MainLayerCapacity]

\* The stores call_draw can have left: none, one with the buffer of the
\* slot and n quads for the pane section, one without the buffer.
DrawStore(n, with_buffer) ==
    Some([buffers |-> IF with_buffer
                      THEN <<[zindex |-> 0, sub_idx |-> 0, buffer |-> DrawBuffer(n + 1)]>>
                      ELSE <<>>,
          section_ranges |-> <<[start |-> DrawSnapshot(0), end |-> DrawSnapshot(1)],
                               [start |-> DrawSnapshot(1), end |-> DrawSnapshot(n + 1)]>>,
          panes |-> <<1>>,
          keys |-> <<1>>])

DrawStores(quads) ==
    {None} \cup {DrawStore(n, b) : n \in quads, b \in BOOLEAN}

DrawProbes(bounds) ==
    {[bounds |-> b, background |-> n1, pane |-> n2, skippable |-> sk,
      viewport_width |-> vw] :
        b \in bounds, n1 \in 0 .. MaxDrawQuads, n2 \in 0 .. MaxDrawQuads,
        sk \in BOOLEAN, vw \in {0, ViewportWidth}}

InitDraw ==
    /\ pc = "pass"
    /\ num_frames = 1
    /\ input = NoInput
    /\ pass = 0
    /\ \E n \in 0 .. (2 * MaxDrawQuads + 1) :
          layers = <<ProbeLayer(MainLayerCapacity, 0, <<n, 0, 0>>)>>
    /\ render_plan = None
    /\ prev_pane_frames = EmptyMap
    /\ prev_frame_buffers \in DrawStores(0 .. 1)
    /\ cofree = CofreeContext_new
    /\ draw_calls = <<>>
    /\ frame_start = EmptyMap
    /\ frame_log = NoLog
    /\ run = NoRun
    /\ faults = 0
    /\ pass_trace = <<>>
    /\ paint_result = NoResult
    /\ allow_images = "Yes"
    /\ probe \in DrawProbes(DrawBounds)
    /\ applied = NotApplied
    /\ device = Device_new

\* paint.rs 233-345 for the sections of the probe: RenderPlan::new with the
\* viewport, the background section without a scissor, the pane section
\* with the scissor of its bounds.
PushSections ==
    /\ pc = "pass"
    /\ pc' = "draw"
    /\ render_plan' =
          Some([sections |->
                    <<RenderSection(None, 0, DrawSnapshot(0),
                                    DrawSnapshot(probe.background), FALSE, None),
                      RenderSection(
                          Some(from_pane_bounds(probe.bounds, probe.viewport_width,
                                                ViewportHeight)),
                          1, DrawSnapshot(probe.background),
                          DrawSnapshot(probe.background + probe.pane),
                          probe.skippable, None)>>,
                viewport_width |-> probe.viewport_width,
                viewport_height |-> ViewportHeight])
    /\ UNCHANGED <<num_frames, input, pass, layers, prev_pane_frames,
                   prev_frame_buffers, cofree, draw_calls, frame_start, frame_log,
                   run, faults, pass_trace, paint_result, allow_images, probe, applied,
                   device>>

\* draw_layer_sections(render_pass, plan, 0, 0, fallback_index_count,
\* current_vertex_buffer, previous_frame).
DrawLayerSections ==
    /\ pc = "draw"
    /\ pc' = "idle"
    /\ draw_calls' = draw_layer_sections(Unwrap(render_plan), 0, 0,
                                         vertex_index_count(layers[1].vb[1]),
                                         WrittenBuffer(layers[1].vb[1]),
                                         prev_frame_buffers)
    /\ applied' = Applied("draw_layer_sections", probe.bounds)
    /\ UNCHANGED <<num_frames, input, pass, layers, render_plan, prev_pane_frames,
                   prev_frame_buffers, cofree, frame_start, frame_log,
                   run, faults, pass_trace, paint_result, allow_images, probe, device>>

NextDraw ==
    \/ PushSections
    \/ DrawLayerSections

SpecDraw == InitDraw /\ [][NextDraw]_vars

(***************************************************************************)
(* CofreeContext on its own: a context from CofreeContext::new is advanced *)
(* with up to MaxOutcomes outcomes, Skipped or Executed with up to         *)
(* MaxOutcomeQuads quads, and asked for its skip_rate.                     *)
(***************************************************************************)
MaxOutcomes == 4
MaxOutcomeQuads == 2

FillStats(n) ==
    [quads_emitted |-> n, fills_emitted |-> n, draws_emitted |-> 0,
     overdraw_positions |-> 0]

\* cofree.advance(outcome).
Advance ==
    /\ cofree.sections_processed < MaxOutcomes
    /\ \E outcome \in {Skipped} \cup {Executed(FillStats(n)) : n \in 0 .. MaxOutcomeQuads} :
          cofree' = advance(cofree, outcome)
    /\ applied' = NotApplied
    /\ UNCHANGED <<pc, num_frames, input, pass, layers, render_plan, prev_pane_frames,
                   prev_frame_buffers, draw_calls, frame_start, frame_log,
                   run, faults, pass_trace, paint_result, allow_images, probe, device>>

\* cofree.skip_rate().
SkipRate ==
    /\ applied = NotApplied
    /\ applied' = Applied("skip_rate", skip_rate(cofree))
    /\ UNCHANGED <<pc, num_frames, input, pass, layers, render_plan, prev_pane_frames,
                   prev_frame_buffers, cofree, draw_calls, frame_start, frame_log,
                   run, faults, pass_trace, paint_result, allow_images, probe, device>>

NextCofree ==
    \/ Advance
    \/ SkipRate

SpecCofree == Init /\ [][NextCofree]_vars

(***************************************************************************)
(* clip_to_rect on command trees: lists with nested batches over every     *)
(* variant are clipped, and what comes out is clipped again with the same  *)
(* rectangle.  The rectangles are whole numbers; one is wider than 2^24,   *)
(* where f32 no longer holds every whole number.                           *)
(***************************************************************************)
WideSide == Pow2(24) + 2

ClipFill(rect) ==
    FillRectCommand(1, 2, rect, LinearRgba(0, 1, 2, 1), Some(HsbTransform(10, 1, 2)))

\* Every variant: markers, fills inside, across and outside the clip
\* rectangles, a fill wider than 2^24, quads inside and outside.
ClipElements ==
    {Nop, BeginPostProcess, ClearCommand(LinearRgba(0, 0, 0, 1)),
     SetClipRectCommand(Some(RectF(5, 5, 1, 1))),
     ClipFill(RectF(1, 0, 1, 1)), ClipFill(RectF(1, 0, 3, 3)), ClipFill(RectF(5, 5, 1, 1)),
     ClipFill(RectF(0, 0, WideSide, 1)),
     draw_quad(1), draw_quad(7)}

ClipTrees(elements) ==
    {<<a, Batch(<<b, c>>)>> : a \in elements, b \in elements, c \in elements}
        \cup {<<Batch(<<a, Batch(<<b>>), Batch(<<>>), c>>)>> :
                 a \in elements, b \in elements, c \in elements}

ClipRects == {RectF(0, 0, 2, 2), RectF(1, 0, WideSide, 1)}

ClipTreeProbes(elements) ==
    {[frame |-> frame_with_panes(<<TestPane(1, cmds)>>), clip |-> c, f |-> "shift"] :
        cmds \in ClipTrees(elements), c \in ClipRects}

InitClip ==
    /\ pc = "idle"
    /\ num_frames = 0
    /\ input = NoInput
    /\ pass = 0
    /\ layers = RenderState_new
    /\ render_plan = None
    /\ prev_pane_frames = EmptyMap
    /\ prev_frame_buffers = None
    /\ cofree = CofreeContext_new
    /\ draw_calls = <<>>
    /\ frame_start = EmptyMap
    /\ frame_log = NoLog
    /\ run = NoRun
    /\ faults = 0
    /\ pass_trace = <<>>
    /\ paint_result = NoResult
    /\ allow_images = "Yes"
    /\ probe \in ClipTreeProbes(ClipElements)
    /\ applied = NotApplied
    /\ device = Device_new

\* clip_to_rect(clip) on every command that clip_to_rect(clip) returned.
ClipToRectAgain ==
    /\ applied.op = "clip_to_rect"
    /\ applied' = Applied("clip_to_rect twice",
                          [once |-> applied.value,
                           twice |-> [p \in 1 .. Len(applied.value) |->
                                         ClipPane(applied.value[p], probe.clip)]])
    /\ UNCHANGED <<pc, num_frames, input, pass, layers, render_plan, prev_pane_frames,
                   prev_frame_buffers, cofree, draw_calls, frame_start, frame_log,
                   run, faults, pass_trace, paint_result, allow_images, probe, device>>

NextClip ==
    \/ ClipToRect
    \/ ClipToRectAgain

SpecClip == InitClip /\ [][NextClip]_vars

(***************************************************************************)
(* Vocabulary of the claims                                                *)
(***************************************************************************)
Depths == {0, 1}

AllSlots == {<<i, s>> : i \in 1 .. Len(layers), s \in 1 .. NumSlots}

StartCount(range, z, i) == quad_count_for_snapshot(range.start, z, i)
EndCount(range, z, i) == quad_count_for_snapshot(range.end, z, i)
RangeLength(range, z, i) == EndCount(range, z, i) - StartCount(range, z, i)

\* The k-th pane section of a plan (the background is section 1).
PaneSectionOf(plan, k) == plan.sections[k + 1]

\* The store cannot serve the section with index section_idx (from 0): it
\* is absent, has no range there, or lacks the buffer of a (depth, slot)
\* whose recorded delta is positive.
StoreStale(store, section_idx) ==
    \/ store = None
    \/ Len(Unwrap(store).section_ranges) < section_idx + 1
    \/ \E z \in Depths, i \in Slots :
          /\ RangeLength(Unwrap(store).section_ranges[section_idx + 1], z, i) > 0
          /\ \A b \in 1 .. Len(Unwrap(store).buffers) :
                ~(Unwrap(store).buffers[b].zindex = z /\ Unwrap(store).buffers[b].sub_idx = i)

\* The FillRect / DrawQuad leaves of a command list.
RECURSIVE LeafCount(_)
LeafCount(cmds) ==
    IF cmds = <<>> THEN 0
    ELSE (CASE Head(cmds).kind \in {"FillRect", "DrawQuad"} -> 1
            [] Head(cmds).kind = "Batch" -> LeafCount(Head(cmds).cmds)
            [] OTHER -> 0)
         + LeafCount(Tail(cmds))

\* C1: whenever the draw pass replays a range from the store, every quad of
\* the range was written into the stored buffer.
C1_ReplayedQuadsWereWritten ==
    \A c \in 1 .. Len(draw_calls) :
        draw_calls[c].source = "previous" =>
            \A q \in (draw_calls[c].first \div INDICES_PER_QUAD) ..
                     ((draw_calls[c].last \div INDICES_PER_QUAD) - 1) :
                q \in Written(draw_calls[c].buffer.data)

\* C2: a pane section is skippable only if the previous frame's cache entry
\* of the pane has the same cache key and the store can serve the section.
C2_SkippableOnlyIfUnchangedAndStored ==
    (pc = "alloc") =>
        \A k \in 1 .. Len(input.panes) :
            PaneSectionOf(Unwrap(render_plan), k).skippable =>
                /\ input.panes[k] \in DOMAIN frame_start
                /\ frame_start[input.panes[k]].cache_key = input.keys[input.panes[k]]
                /\ cofree.prior_outcomes[k] = Skipped
                /\ ~StoreStale(prev_frame_buffers, k)

\* C3: the skippable pane sections of a plan form a prefix of its pane
\* sections.
C3_SkippablePrefix ==
    IsSome(render_plan) =>
        \A j, k \in 2 .. (Len(Unwrap(render_plan).sections) - 1) :
            (j < k /\ Unwrap(render_plan).sections[k].skippable)
                => Unwrap(render_plan).sections[j].skippable

\* A pass in which the first pane was executed and the second one, with an
\* unchanged key and a range in the store, was executed too.
C3_Witness ==
    /\ pc = "alloc"
    /\ Len(input.panes) = 2
    /\ pass_trace[2].candidate_skippable
    /\ ~StoreStale(prev_frame_buffers, 2)
    /\ ~PaneSectionOf(Unwrap(render_plan), 1).skippable
    /\ ~PaneSectionOf(Unwrap(render_plan), 2).skippable
    /\ cofree.prior_outcomes[2].kind = "Executed"

\* C4: a pane with an unchanged cache key for which the store is stale does
\* not make the pass fail, and every pass that returns Ok has executed the
\* pane's commands in full and recorded it as Executed and not skippable.
C4_StaleStoreFallsBack ==
    [][(pc = "pass") =>
          \A k \in 1 .. Len(input.panes) :
              LET pane == input.panes[k] IN
              (/\ pane \in DOMAIN prev_pane_frames
               /\ prev_pane_frames[pane].cache_key = input.keys[pane]
               /\ StoreStale(prev_frame_buffers, k))
              => /\ paint_pass(layers, prev_pane_frames, prev_frame_buffers, input, 0).ok
                 /\ (pc' = "alloc") =>
                       /\ ~PaneSectionOf(Unwrap(render_plan'), k).skippable
                       /\ cofree'.prior_outcomes[k].kind = "Executed"
                       /\ cofree'.prior_outcomes[k].stats.quads_emitted
                             = LeafCount(prev_pane_frames[pane].commands)
                       /\ prev_pane_frames'[pane].skip_streak = 0]_vars

\* A pass that executed a pane whose key was unchanged because the store
\* had nothing for its section.
C4_Witness ==
    /\ pc = "alloc"
    /\ pass_trace[1].candidate_skippable
    /\ StoreStale(prev_frame_buffers, 1)
    /\ cofree.prior_outcomes[1].kind = "Executed"
    /\ cofree.prior_outcomes[1].stats.quads_emitted > 0

\* C5: a skipped pane section has, for every (depth, slot), the length of
\* the range that the same pane had in the frame that filled the store.
C5_SkippedKeepsPaneLength ==
    (pc = "alloc") =>
        \A k \in 1 .. Len(input.panes) :
            PaneSectionOf(Unwrap(render_plan), k).skippable =>
                \E j \in 1 .. Len(Unwrap(prev_frame_buffers).panes) :
                    /\ Unwrap(prev_frame_buffers).panes[j] = input.panes[k]
                    /\ \A z \in Depths, i \in Slots :
                          RangeLength(PaneSectionOf(Unwrap(render_plan), k).quad_range, z, i)
                            = RangeLength(Unwrap(prev_frame_buffers).section_ranges[j + 1], z, i)

\* C7: call_draw never runs on the cursors of a pass in which a slot's
\* cursor exceeded its capacity.
C7_NoDrawAfterOverflow ==
    (pc = "draw") =>
        \A sl \in AllSlots : need_more_quads(layers[sl[1]].vb[sl[2]]) = None

SamePlan(p, q) ==
    /\ Len(p.sections) = Len(q.sections)
    /\ \A k \in 1 .. Len(p.sections) :
          /\ p.sections[k].skippable = q.sections[k].skippable
          /\ p.sections[k].scissor = q.sections[k].scissor
          /\ p.sections[k].content_hash = q.sections[k].content_hash
          /\ \A z \in Depths, i \in Slots :
                /\ StartCount(p.sections[k].quad_range, z, i)
                      = StartCount(q.sections[k].quad_range, z, i)
                /\ EndCount(p.sections[k].quad_range, z, i)
                      = EndCount(q.sections[k].quad_range, z, i)

\* The plan of a single pass over this frame's input from the state the
\* frame began in, the capacities being what they are now.
SinglePassPlan ==
    Unwrap(paint_pass(layers, frame_start, prev_frame_buffers, input, 0).render_plan)

\* C8: the plan drawn after an overflow and a retry is the plan of a single
\* pass with sufficient capacity.
C8_RetriedPlanIdentical ==
    (pc = "draw" /\ frame_log.overflowed /\ ~frame_log.failed) =>
        SamePlan(Unwrap(render_plan), SinglePassPlan)

\* C6: in frames of one unchanging pane, the pane is Executed in the first
\* frame and Skipped in every later one; the context advanced with the
\* outcomes has processed one section per frame and skipped all but the
\* first, so that after five frames the skip rate is 4/5.
C6_SteadyPaneSkips ==
    /\ Len(run.outcomes) = run.frames
    /\ \A n \in 1 .. Len(run.outcomes) :
          run.outcomes[n].kind = (IF n = 1 THEN "Executed" ELSE "Skipped")
    /\ run.ctx.sections_processed = run.frames
    /\ run.ctx.sections_skipped = Max(run.frames - 1, 0)
    /\ (run.frames = 5) =>
          /\ run.ctx.sections_processed = 5
          /\ run.ctx.sections_skipped = 4
          /\ skip_rate(run.ctx)[1] * 5 = 4 * skip_rate(run.ctx)[2]

\* Five steady frames have been drawn.
C6_Witness ==
    /\ pc = "idle"
    /\ run.frames = 5
    /\ run.outcomes[1].kind = "Executed"
    /\ run.outcomes[5].kind = "Skipped"

Overfull(vb) == vb.next_quad > vb.capacity

\* C9: allocated_more_quads re-creates each slot whose cursor exceeds its
\* capacity with the smallest multiple of 128 that is at least the cursor
\* as its capacity, leaves every other slot as it is, and returns true
\* exactly when some slot was re-created.
C9_ReallocatesOverfullSlots ==
    [][(pc = "alloc") =>
          /\ Len(layers') = Len(layers)
          /\ \A i \in 1 .. Len(layers), s \in 1 .. NumSlots :
                IF Overfull(layers[i].vb[s])
                THEN /\ layers'[i].vb[s].capacity % 128 = 0
                     /\ layers'[i].vb[s].capacity >= layers[i].vb[s].next_quad
                     /\ layers'[i].vb[s].capacity - 128 < layers[i].vb[s].next_quad
                     /\ layers'[i].vb[s].next_quad = 0
                     /\ layers'[i].vb[s].bufs = <<EmptyBuffer, EmptyBuffer, EmptyBuffer>>
                ELSE layers'[i].vb[s] = layers[i].vb[s]
          /\ (pc' = "pass") <=>
                \E i \in 1 .. Len(layers), s \in 1 .. NumSlots : Overfull(layers[i].vb[s])]_vars

\* Two slots were re-created, one of them for a cursor that was a multiple
\* of 128, next to a slot that was left alone.
C9_Witness ==
    /\ pc = "pass"
    /\ layers[1].vb[1].capacity = 256
    /\ layers[1].vb[3].capacity = 128
    /\ layers[1].vb[2].next_quad = 5
    /\ Len(layers) = 2
    /\ layers[2].vb[2].capacity = 256

\* C10 as stated: after a pass need_more_quads() is Some exactly when an
\* allocation of the pass wrapped to quad 0.
C10_NeedsMoreExactlyWhenWrapped ==
    (pc = "alloc") =>
        \A sl \in AllSlots :
            IsSome(need_more_quads(layers[sl[1]].vb[sl[2]]))
                <=> layers[sl[1]].vb[sl[2]].wrapped

\* What allocate() does to a slot: it writes the quad at the cursor, or
\* quad 0 when the cursor is not below the capacity, inside the buffer, and
\* moves the cursor by one.
AllocateStep(vb) ==
    /\ allocate(vb, ProbeTag).next_quad = vb.next_quad + 1
    /\ Len(allocate(vb, ProbeTag).bufs[vb.index + 1]) <= vb.capacity
    /\ allocate(vb, ProbeTag).bufs[vb.index + 1]
          [(IF vb.next_quad < vb.capacity THEN vb.next_quad ELSE 0) + 1] = ProbeTag
    /\ \A q \in 1 .. Len(vb.bufs[vb.index + 1]) :
          q # (IF vb.next_quad < vb.capacity THEN vb.next_quad ELSE 0) + 1
            => allocate(vb, ProbeTag).bufs[vb.index + 1][q] = vb.bufs[vb.index + 1][q]

\* C10, amended: allocate() never writes outside the buffer and moves the
\* cursor by one; the cursor of a slot is the number of its allocations
\* plus the quads advanced over for skipped sections; need_more_quads() is
\* Some(cursor) whenever an allocation wrapped, and only then in a slot no
\* skipped section advanced.
C10_AllocateStaysInside ==
    \A sl \in AllSlots :
        LET vb == layers[sl[1]].vb[sl[2]] IN
        /\ \A b \in 1 .. 3 : Len(vb.bufs[b]) <= vb.capacity
        /\ AllocateStep(vb)
        /\ vb.next_quad = vb.allocs + vb.advanced
        /\ vb.wrapped => need_more_quads(vb) = Some(vb.next_quad)
        /\ (IsSome(need_more_quads(vb)) /\ vb.advanced = 0) => vb.wrapped

\* A pass wrapped an allocation in a slot and asks for more quads.
C10_Witness ==
    /\ pc = "alloc"
    /\ \E sl \in AllSlots :
          /\ layers[sl[1]].vb[sl[2]].wrapped
          /\ layers[sl[1]].vb[sl[2]].allocs = SideCapacity + 1
          /\ need_more_quads(layers[sl[1]].vb[sl[2]]) = Some(SideCapacity + 1)

\* C11: when paint_impl stops re-running the pass although a slot still asks
\* for more quads, it returns a fatal error to its caller.
C11_ExhaustedRetriesAreFatal ==
    paint_result.gave_up => paint_result.returned = "Err"

\* C13: when call_draw fails, paint_impl returns an error to its caller.
C13_DrawFailurePropagated ==
    (paint_result.call_draw = "Err") => paint_result.returned = "Err"

\* C12: a paint_impl that started its 'pass loop reaches call_draw, however
\* often a pass fails with OutOfTextureSpace or ClearShapeCache.
C12_PaintReachesDraw ==
    (pc = "pass") ~> (pc = "draw")

\* The quads a section's range covers, over every (depth, slot).
RECURSIVE SumOver(_, _)
SumOver(range, pairs) ==
    IF pairs = {} THEN 0
    ELSE LET p == CHOOSE x \in pairs : TRUE
         IN  RangeLength(range, p[1], p[2]) + SumOver(range, pairs \ {p})

SectionQuads(section) == SumOver(section.quad_range, Depths \X Slots)

\* A section that is never content-cached: no scissor, fingerprint 0, not
\* skippable.
AnchorSection(section) ==
    /\ section.scissor = None
    /\ section.content_hash = 0
    /\ ~section.skippable

\* C19: the plan of a successful pass has the background section, one
\* section per pane in pane order, and the chrome section; background and
\* chrome were executed in this pass, are not skippable, have fingerprint 0
\* and no scissor; every pane section has a scissor.
C19_PlanShape ==
    (pc \in {"alloc", "draw"} /\ IsSome(render_plan)) =>
        /\ Len(Unwrap(render_plan).sections) = Len(input.panes) + 2
        /\ AnchorSection(Unwrap(render_plan).sections[1])
        /\ SectionQuads(Unwrap(render_plan).sections[1])
             = LeafCount(describe_window_background(input.bg))
        /\ AnchorSection(Unwrap(render_plan).sections[Len(input.panes) + 2])
        /\ SectionQuads(Unwrap(render_plan).sections[Len(input.panes) + 2])
             = LeafCount(describe_chrome)
        /\ \A k \in 1 .. Len(input.panes) :
              /\ IsSome(PaneSectionOf(Unwrap(render_plan), k).scissor)
              /\ PaneSectionOf(Unwrap(render_plan), k).content_hash
                   = prev_pane_frames[input.panes[k]].command_hash

\* A pass over two panes ended, one pane skipped and one executed.
C19_Witness ==
    /\ pc = "alloc"
    /\ IsSome(render_plan)
    /\ Len(input.panes) = 2
    /\ PaneSectionOf(Unwrap(render_plan), 1).skippable
    /\ ~PaneSectionOf(Unwrap(render_plan), 2).skippable

\* C18: within a pass the quad counts snapshotted at the section boundaries
\* (start and end of the background, of each pane, of the chrome) never
\* decrease for any (depth, slot), a (depth, slot) missing from a snapshot
\* counting as 0.
C18_SnapshotsNonDecreasing ==
    IsSome(render_plan) =>
        \A z \in Depths, i \in Slots, k \in 1 .. Len(Unwrap(render_plan).sections) :
            /\ StartCount(Unwrap(render_plan).sections[k].quad_range, z, i)
                 <= EndCount(Unwrap(render_plan).sections[k].quad_range, z, i)
            /\ k < Len(Unwrap(render_plan).sections) =>
                  EndCount(Unwrap(render_plan).sections[k].quad_range, z, i)
                    <= StartCount(Unwrap(render_plan).sections[k + 1].quad_range, z, i)

\* A pass that skipped its first pane and executed its second one, each of
\* them moving a cursor, and that took a slot's cursor beyond its capacity.
C18_Witness ==
    /\ pc = "alloc"
    /\ IsSome(render_plan)
    /\ Len(input.panes) = 2
    /\ PaneSectionOf(Unwrap(render_plan), 1).skippable
    /\ SectionQuads(PaneSectionOf(Unwrap(render_plan), 1)) > 0
    /\ ~PaneSectionOf(Unwrap(render_plan), 2).skippable
    /\ SectionQuads(PaneSectionOf(Unwrap(render_plan), 2)) > 0
    /\ \E sl \in AllSlots : Overfull(layers[sl[1]].vb[sl[2]])

\* The entry stored for a pane keeps the commands, bounds, fingerprint and
\* key of the entry it had before.
ReusesPrior(stored, prior) ==
    /\ stored.commands = prior.commands
    /\ stored.bounds = prior.bounds
    /\ stored.command_hash = prior.command_hash
    /\ stored.cache_key = prior.cache_key

\* The entry stored for a pane is a new description of it.
Redescribed(stored, pane, key) ==
    /\ stored.commands = describe_pane_with_snapshot(pane, key).commands
    /\ stored.bounds = describe_pane_with_snapshot(pane, key).bounds
    /\ stored.command_hash = describe_pane_with_snapshot(pane, key).command_hash
    /\ stored.cache_key = key

\* C20 as stated: in a pass, a pane whose previous entry has the same cache
\* key is stored with the prior commands, bounds and fingerprint and the
\* prior streak plus one; any other pane is described again and stored
\* with streak 0.
C20_SameKeyAdvancesStreak ==
    [][(pc = "pass" /\ pc' = "alloc") =>
          \A k \in 1 .. Len(input.panes) :
              IF CandidateSkippable(prev_pane_frames, input.panes[k], input.keys[input.panes[k]])
              THEN /\ ReusesPrior(prev_pane_frames'[input.panes[k]],
                                  prev_pane_frames[input.panes[k]])
                   /\ prev_pane_frames'[input.panes[k]].skip_streak
                        = prev_pane_frames[input.panes[k]].skip_streak + 1
              ELSE /\ Redescribed(prev_pane_frames'[input.panes[k]], input.panes[k],
                                  input.keys[input.panes[k]])
                   /\ prev_pane_frames'[input.panes[k]].skip_streak = 0]_vars

\* C20, amended: a pane whose previous entry has the same cache key is
\* stored with the prior commands, bounds and fingerprint; its streak is the
\* prior streak plus one when its section was skipped and 0 when the pane
\* was executed after all; any other pane is described again and stored
\* with streak 0.
C20_StreakCountsSkips ==
    [][(pc = "pass" /\ pc' = "alloc") =>
          \A k \in 1 .. Len(input.panes) :
              IF CandidateSkippable(prev_pane_frames, input.panes[k], input.keys[input.panes[k]])
              THEN /\ ReusesPrior(prev_pane_frames'[input.panes[k]],
                                  prev_pane_frames[input.panes[k]])
                   /\ prev_pane_frames'[input.panes[k]].skip_streak
                        = IF PaneSectionOf(Unwrap(render_plan'), k).skippable
                          THEN prev_pane_frames[input.panes[k]].skip_streak + 1
                          ELSE 0
              ELSE /\ Redescribed(prev_pane_frames'[input.panes[k]], input.panes[k],
                                  input.keys[input.panes[k]])
                   /\ prev_pane_frames'[input.panes[k]].skip_streak = 0]_vars

\* The first pass of a frame described its first pane again and executed
\* its second pane, whose key had not changed and whose streak was 1: the
\* second pane is stored with streak 0.
C20_Witness ==
    /\ pc = "alloc"
    /\ pass = 0
    /\ IsSome(render_plan)
    /\ Len(input.panes) = 2
    /\ ~pass_trace[1].candidate_skippable
    /\ pass_trace[2].candidate_skippable
    /\ frame_start[input.panes[2]].skip_streak = 1
    /\ ~PaneSectionOf(Unwrap(render_plan), 2).skippable
    /\ prev_pane_frames[input.panes[2]].skip_streak = 0

\* C14 as stated: the draw calls of one call_draw come by increasing depth
\* and, among the calls of one depth, whatever their slot, in the order of
\* their sections in the plan.
C14_DrawOrderBySection ==
    \A c, d \in 1 .. Len(draw_calls) :
        c < d =>
            /\ draw_calls[c].zindex <= draw_calls[d].zindex
            /\ (draw_calls[c].zindex = draw_calls[d].zindex
                  /\ draw_calls[c].section >= 0 /\ draw_calls[d].section >= 0)
                 => draw_calls[c].section <= draw_calls[d].section

\* C14, amended: the draw calls of one call_draw come by increasing depth,
\* within a depth by increasing slot, and within a (depth, slot) in the
\* order of their sections in the plan, replayed or not; no section is
\* drawn twice for a (depth, slot).
C14_DrawOrderBySlotThenSection ==
    \A c, d \in 1 .. Len(draw_calls) :
        c < d =>
            \/ draw_calls[c].zindex < draw_calls[d].zindex
            \/ /\ draw_calls[c].zindex = draw_calls[d].zindex
               /\ draw_calls[c].sub_idx < draw_calls[d].sub_idx
            \/ /\ draw_calls[c].zindex = draw_calls[d].zindex
               /\ draw_calls[c].sub_idx = draw_calls[d].sub_idx
               /\ draw_calls[c].section < draw_calls[d].section

\* A call_draw drew two depths, two slots of the first depth, and both
\* replayed and newly executed sections.
C14_Witness ==
    /\ pc = "idle"
    /\ \E c, d \in 1 .. Len(draw_calls) :
          draw_calls[c].zindex = 0 /\ draw_calls[d].zindex = 1
    /\ \E c, d \in 1 .. Len(draw_calls) :
          /\ c < d
          /\ draw_calls[c].zindex = draw_calls[d].zindex
          /\ draw_calls[c].sub_idx < draw_calls[d].sub_idx
          /\ draw_calls[c].section > draw_calls[d].section
          /\ draw_calls[d].section >= 0
    /\ \E c, d \in 1 .. Len(draw_calls) :
          draw_calls[c].source = "previous" /\ draw_calls[d].source = "current"
                                            /\ draw_calls[d].section > 0

\* The slots a pass left with a non-zero cursor.
TouchedSlots == {sl \in AllSlots : layers[sl[1]].vb[sl[2]].next_quad > 0}

\* The entries of a store for the slot sl of the layers.
BuffersOf(store, sl) ==
    {b \in 1 .. Len(store.buffers) :
        /\ store.buffers[b].zindex = layers[sl[1]].zindex
        /\ store.buffers[b].sub_idx = sl[2] - 1}

\* C17: a successful call_draw leaves a store that holds, for each (depth,
\* slot) whose cursor was non-zero, exactly one buffer, the one written in
\* this frame, no other buffer, and the ranges of this frame's sections in
\* plan order, or no range when there was no plan.
C17_StoreReplaced ==
    [][(pc = "draw" /\ pc' = "idle" /\ paint_result'.call_draw = "Ok") =>
          /\ IsSome(prev_frame_buffers')
          /\ Len(Unwrap(prev_frame_buffers').buffers) = Cardinality(TouchedSlots)
          /\ \A sl \in TouchedSlots :
                \E b \in BuffersOf(Unwrap(prev_frame_buffers'), sl) :
                    Unwrap(prev_frame_buffers').buffers[b].buffer
                      = WrittenBuffer(layers[sl[1]].vb[sl[2]])
          /\ \A sl \in AllSlots \ TouchedSlots :
                BuffersOf(Unwrap(prev_frame_buffers'), sl) = {}
          /\ IF IsSome(render_plan)
             THEN /\ Len(Unwrap(prev_frame_buffers').section_ranges)
                       = Len(Unwrap(render_plan).sections)
                  /\ \A k \in 1 .. Len(Unwrap(render_plan).sections) :
                        Unwrap(prev_frame_buffers').section_ranges[k]
                          = Unwrap(render_plan).sections[k].quad_range
             ELSE Unwrap(prev_frame_buffers').section_ranges = <<>>]_vars

\* A later frame was drawn with a plan while the layer of depth 1, used by
\* an earlier frame, had no vertices: the store has no buffer of depth 1.
C17_Witness ==
    /\ pc = "idle"
    /\ paint_result.call_draw = "Ok"
    /\ IsSome(render_plan)
    /\ Len(layers) = 2
    /\ \A s \in 1 .. NumSlots : layers[2].vb[s].next_quad = 0
    /\ IsSome(prev_frame_buffers)
    /\ Len(Unwrap(prev_frame_buffers).buffers) > 0
    /\ \A b \in 1 .. Len(Unwrap(prev_frame_buffers).buffers) :
          Unwrap(prev_frame_buffers).buffers[b].zindex # 1

\* The buffer the pass of this frame wrote for the slot of a draw call.
CurrentBufferOf(call) ==
    WrittenBuffer(layers[LayerPos(layers, call.zindex)].vb[call.sub_idx + 1])

\* C16: in a call_draw, every draw call of a section that is not replayed
\* from the store, and every fallback draw, reads the buffer written in
\* this frame for its (depth, slot), also when it follows a replayed
\* section of the same (depth, slot); a replayed section reads the stored
\* buffer.
C16_CurrentBufferRebound ==
    [][(pc = "draw" /\ pc' = "idle") =>
          \A c \in 1 .. Len(draw_calls') :
              IF draw_calls'[c].source = "previous"
              THEN draw_calls'[c].buffer
                     = Unwrap(FrameBuffers_buffer(Unwrap(prev_frame_buffers),
                                                  draw_calls'[c].zindex,
                                                  draw_calls'[c].sub_idx))
              ELSE draw_calls'[c].buffer = CurrentBufferOf(draw_calls'[c])]_vars

\* A call_draw replayed a section of a (depth, slot) and then drew a later
\* section of the same (depth, slot) from the current buffer, which differs
\* from the stored one.
C16_Witness ==
    /\ pc = "idle"
    /\ \E c, d \in 1 .. Len(draw_calls) :
          /\ c < d
          /\ draw_calls[c].zindex = draw_calls[d].zindex
          /\ draw_calls[c].sub_idx = draw_calls[d].sub_idx
          /\ draw_calls[c].source = "previous"
          /\ draw_calls[d].source = "current"
          /\ draw_calls[c].buffer # draw_calls[d].buffer

\* The store can serve the section with index section_idx for the slot
\* sub_idx of depth zindex: the section is skippable and the store has a
\* range and a buffer for it.
Replayable(section, section_idx, zindex, sub_idx, store) ==
    /\ section.skippable
    /\ IsSome(store)
    /\ IsSome(FrameBuffers_section_quad_range(Unwrap(store), section_idx, zindex, sub_idx))
    /\ IsSome(FrameBuffers_buffer(Unwrap(store), zindex, sub_idx))

\* The draw call of the section with index section_idx in the slot sl that
\* reads the section's current range.
DrawnFromCurrentRange(calls, section, section_idx, sl) ==
    \E c \in 1 .. Len(calls) :
        /\ calls[c].zindex = layers[sl[1]].zindex
        /\ calls[c].sub_idx = sl[2] - 1
        /\ calls[c].section = section_idx
        /\ calls[c].source = "current"
        /\ calls[c].first
             = StartCount(section.quad_range, layers[sl[1]].zindex, sl[2] - 1)
                 * INDICES_PER_QUAD
        /\ calls[c].last
             = EndCount(section.quad_range, layers[sl[1]].zindex, sl[2] - 1)
                 * INDICES_PER_QUAD

\* C15: in a draw pass over a plan, a section is drawn from the stored
\* buffer only when it is skippable and the store has the range and the
\* buffer; in every other case a section with a non-empty current range
\* in a (depth, slot) and a non-empty scissor is drawn from that range.
C15_FallsBackToCurrentRange ==
    [][(pc = "draw" /\ pc' = "idle" /\ paint_result'.call_draw = "Ok"
          /\ IsSome(render_plan)) =>
          /\ \A c \in 1 .. Len(draw_calls') :
                draw_calls'[c].source = "previous" =>
                    Replayable(Unwrap(render_plan).sections[draw_calls'[c].section + 1],
                               draw_calls'[c].section, draw_calls'[c].zindex,
                               draw_calls'[c].sub_idx, prev_frame_buffers)
          /\ \A sl \in TouchedSlots, k \in 1 .. Len(Unwrap(render_plan).sections) :
                (/\ ~Replayable(Unwrap(render_plan).sections[k], k - 1,
                                layers[sl[1]].zindex, sl[2] - 1, prev_frame_buffers)
                 /\ IsSome(quad_range_for_section(
                               Unwrap(render_plan).sections[k].quad_range,
                               layers[sl[1]].zindex, sl[2] - 1))
                 /\ ScissorOk(Unwrap(render_plan).sections[k], Unwrap(render_plan)))
                  => DrawnFromCurrentRange(draw_calls', Unwrap(render_plan).sections[k],
                                           k - 1, sl)]_vars

\* The unit cells a rectangle with whole coordinates covers: none when a
\* side is zero or negative.
CellsOf(rect) ==
    {<<i, j>> : i \in rect.x .. (rect.x + rect.width - 1),
                j \in rect.y .. (rect.y + rect.height - 1)}

\* C21: clip_to_rect(C) applied to a FillRect with rect R yields Nop exactly
\* when R and C share no area, and otherwise a FillRect whose rect covers
\* exactly the area R and C share, with the layer, depth, colour and HSB
\* transform of the original.
C21_ClipIsIntersection ==
    applied.op = "clip_to_rect" =>
        \A p \in 1 .. Len(probe.frame.panes) :
            \A k \in 1 .. Len(probe.frame.panes[p].commands) :
                probe.frame.panes[p].commands[k].kind = "FillRect" =>
                    LET cmd == probe.frame.panes[p].commands[k]
                        out == applied.value[p][k]
                        common == CellsOf(cmd.rect) \cap CellsOf(probe.clip)
                    IN  /\ (out.kind = "Nop") <=> (common = {})
                        /\ common # {} =>
                              /\ out.kind = "FillRect"
                              /\ out.rect.width > 0
                              /\ out.rect.height > 0
                              /\ CellsOf(out.rect) = common
                              /\ out.layer = cmd.layer
                              /\ out.zindex = cmd.zindex
                              /\ out.color = cmd.color
                              /\ out.hsv = cmd.hsv

\* The end-to-end example: a FillRect at depth 2 with rect (10,10,20,20)
\* clipped against (0,0,15,15) has become a FillRect with rect (10,10,5,5).
C21_Witness ==
    /\ applied.op = "clip_to_rect"
    /\ probe.clip = RectF(0, 0, 15, 15)
    /\ probe.frame.panes[1].commands[1].kind = "FillRect"
    /\ probe.frame.panes[1].commands[1].rect = RectF(10, 10, 20, 20)
    /\ probe.frame.panes[1].commands[1].zindex = 2
    /\ applied.value[1][1].kind = "FillRect"
    /\ applied.value[1][1].rect = RectF(10, 10, 5, 5)

\* A command with every f32 field replaced by the number it stands for.
NumericColor(c) == [i \in 1 .. 4 |-> F32Number(c[i])]

NumericRect(r) ==
    RectF(F32Number(r.x), F32Number(r.y), F32Number(r.width), F32Number(r.height))

NumericHsb(hsv) ==
    IF IsSome(hsv)
    THEN Some(HsbTransform(F32Number(Unwrap(hsv).hue), F32Number(Unwrap(hsv).saturation),
                           F32Number(Unwrap(hsv).brightness)))
    ELSE None

RECURSIVE Numeric(_)
Numeric(cmd) ==
    CASE cmd.kind = "Clear" -> ClearCommand(NumericColor(cmd.color))
      [] cmd.kind = "FillRect" ->
            FillRectCommand(cmd.layer, cmd.zindex, NumericRect(cmd.rect),
                            NumericColor(cmd.color), NumericHsb(cmd.hsv))
      [] cmd.kind = "DrawQuad" ->
            DrawQuadCommand(cmd.layer, cmd.zindex, NumericRect(cmd.position),
                            TextureCoords(F32Number(cmd.texture.left),
                                          F32Number(cmd.texture.top),
                                          F32Number(cmd.texture.right),
                                          F32Number(cmd.texture.bottom)),
                            NumericColor(cmd.fg_color),
                            IF IsSome(cmd.alt_color)
                            THEN Some(<<NumericColor(Unwrap(cmd.alt_color)[1]),
                                        F32Number(Unwrap(cmd.alt_color)[2])>>)
                            ELSE None,
                            NumericHsb(cmd.hsv), cmd.mode)
      [] cmd.kind = "SetClipRect" ->
            SetClipRectCommand(IF IsSome(cmd.rect)
                               THEN Some(NumericRect(Unwrap(cmd.rect)))
                               ELSE None)
      [] cmd.kind = "Batch" -> Batch([k \in 1 .. Len(cmd.cmds) |-> Numeric(cmd.cmds[k])])
      [] OTHER -> cmd

NumericList(cmds) == [k \in 1 .. Len(cmds) |-> Numeric(cmds[k])]

\* q holds the list of p with the leaves at i and j, which stand outside
\* any Batch, exchanged.
ExchangedLeaves(p, q, i, j) ==
    /\ i < j
    /\ p[i].kind # "Batch"
    /\ p[j].kind # "Batch"
    /\ q = Swapped(p, i, j)

\* C22 as stated: two command lists that are identical in structure and in
\* the numbers of their leaf fields feed the hasher the same bytes, and
\* exchanging two leaves outside any Batch whose field values differ
\* changes the bytes fed.
C22_NumericallyIdenticalHashEqual ==
    applied.op = "content_hash" =>
        \A p \in 1 .. Len(probe.frame.panes), q \in 1 .. Len(probe.frame.panes) :
            /\ NumericList(probe.frame.panes[p].commands)
                    = NumericList(probe.frame.panes[q].commands)
                  => applied.value[p] = applied.value[q]
            /\ \A i \in 1 .. Len(probe.frame.panes[p].commands),
                  j \in 1 .. Len(probe.frame.panes[p].commands) :
                    /\ ExchangedLeaves(probe.frame.panes[p].commands,
                                       probe.frame.panes[q].commands, i, j)
                    /\ Numeric(probe.frame.panes[p].commands[i])
                           # Numeric(probe.frame.panes[p].commands[j])
                    => applied.value[p] # applied.value[q]

\* C22, amended: two command lists that are identical in structure and,
\* bit for bit, in their leaf fields feed the hasher the same bytes, and
\* exchanging two leaves outside any Batch that differ in variant or in
\* the bits of a field changes the bytes fed.
C22_BitIdenticalHashEqual ==
    applied.op = "content_hash" =>
        \A p \in 1 .. Len(probe.frame.panes), q \in 1 .. Len(probe.frame.panes) :
            /\ probe.frame.panes[p].commands = probe.frame.panes[q].commands
                  => applied.value[p] = applied.value[q]
            /\ \A i \in 1 .. Len(probe.frame.panes[p].commands),
                  j \in 1 .. Len(probe.frame.panes[p].commands) :
                    /\ ExchangedLeaves(probe.frame.panes[p].commands,
                                       probe.frame.panes[q].commands, i, j)
                    /\ probe.frame.panes[p].commands[i] # probe.frame.panes[p].commands[j]
                    => applied.value[p] # applied.value[q]

\* Two panes were hashed whose lists differ by the exchange of a FillRect
\* and a SetClipRect(None) standing on either side of a third command, and
\* the bytes fed differ.
C22_Witness ==
    /\ applied.op = "content_hash"
    /\ Len(probe.frame.panes) = 2
    /\ Len(probe.frame.panes[1].commands) = 3
    /\ ExchangedLeaves(probe.frame.panes[1].commands, probe.frame.panes[2].commands, 1, 3)
    /\ probe.frame.panes[1].commands[1].kind = "FillRect"
    /\ probe.frame.panes[1].commands[3] = SetClipRectCommand(None)
    /\ applied.value[1] # applied.value[2]

\* The paths (child positions from the top) of the non-Batch commands of a
\* command list, the command a path leads to, and the order of the paths
\* from left to right, depth first.
RECURSIVE LeafPaths(_)
LeafPaths(cmds) ==
    UNION {IF cmds[k].kind = "Batch"
           THEN {<<k>> \o q : q \in LeafPaths(cmds[k].cmds)}
           ELSE {<<k>>} : k \in 1 .. Len(cmds)}

RECURSIVE NodeAt(_, _)
NodeAt(cmds, path) ==
    IF Len(path) = 1 THEN cmds[path[1]]
    ELSE NodeAt(cmds[path[1]].cmds, Tail(path))

RECURSIVE LeftOf(_, _)
LeftOf(a, b) ==
    IF a = <<>> THEN b # <<>>
    ELSE IF b = <<>> THEN FALSE
    ELSE a[1] < b[1] \/ (a[1] = b[1] /\ LeftOf(Tail(a), Tail(b)))

PathAtRank(paths, n) ==
    CHOOSE q \in paths : Cardinality({r \in paths : LeftOf(r, q)}) = n - 1

LeavesInOrder(cmds) ==
    [n \in 1 .. Cardinality(LeafPaths(cmds)) |-> NodeAt(cmds, PathAtRank(LeafPaths(cmds), n))]

\* The panes of a frame as one command list: a Batch of commands per pane.
PanesAsList(frame) == [p \in 1 .. Len(frame.panes) |-> Batch(frame.panes[p].commands)]

\* C23: RenderCommand::fold and the fold of the DeepCommands traversal call
\* f exactly once for every non-Batch leaf, from left to right and depth
\* first at any nesting depth, and never for a Batch node; the fold of an
\* empty Batch returns the accumulator as it was.
C23_FoldVisitsLeavesInOrder ==
    applied.op = "fold" =>
        /\ \A p \in 1 .. Len(probe.frame.panes) :
              \A k \in 1 .. Len(probe.frame.panes[p].commands) :
                 /\ applied.value.each[p][k]
                        = LeavesInOrder(<<probe.frame.panes[p].commands[k]>>)
                 /\ probe.frame.panes[p].commands[k] = Batch(<<>>)
                        => applied.value.each[p][k] = <<>>
        /\ applied.value.deep = LeavesInOrder(PanesAsList(probe.frame))
        /\ \A n \in 1 .. Len(applied.value.deep) : applied.value.deep[n].kind # "Batch"
        /\ applied.value.draw_quads
               = Cardinality({q \in LeafPaths(PanesAsList(probe.frame)) :
                                 NodeAt(PanesAsList(probe.frame), q).kind = "DrawQuad"})

\* The frame of traversal_fold_counts_draw_quads_in_frame was folded: five
\* leaves were visited, the third of them the quad nested two batches deep,
\* and three of them are DrawQuads.
C23_Witness ==
    /\ applied.op = "fold"
    /\ Len(probe.frame.panes) = 2
    /\ probe.frame.panes[1].commands
           = <<draw_quad(1), Batch(<<draw_quad(2), Batch(<<draw_quad(3)>>)>>), fill_rect>>
    /\ probe.frame.panes[2].commands = <<fill_rect>>
    /\ Len(applied.value.deep) = 5
    /\ applied.value.deep[3] = draw_quad(3)
    /\ applied.value.each[1][2] = <<draw_quad(2), draw_quad(3)>>
    /\ applied.value.draw_quads = 3

\* The Batch nesting of a command list: every non-Batch command replaced
\* by a mark.
RECURSIVE Nesting(_)
Nesting(cmds) ==
    [k \in 1 .. Len(cmds) |->
        IF cmds[k].kind = "Batch" THEN Batch(Nesting(cmds[k].cmds)) ELSE Nop]

\* What the closure probe.f answers for the n-th leaf of the frame.
TransformedLeaves(frame, f) ==
    [n \in 1 .. Len(LeavesInOrder(PanesAsList(frame))) |->
        TraverseFn(f, LeavesInOrder(PanesAsList(frame))[n])]

\* The traversal called f once for every non-Batch leaf, in order, put
\* what f answered where the leaf was, and left the panes' number and
\* order and every other field of the panes and of the frame alone.
TraversedEachLeafOnce ==
    /\ applied.value.calls = LeavesInOrder(PanesAsList(probe.frame))
    /\ Len(applied.value.frame.panes) = Len(probe.frame.panes)
    /\ \A p \in 1 .. Len(probe.frame.panes) :
          /\ [applied.value.frame.panes[p] EXCEPT !.commands = probe.frame.panes[p].commands]
                 = probe.frame.panes[p]
          /\ Len(applied.value.frame.panes[p].commands) = Len(probe.frame.panes[p].commands)
    /\ [applied.value.frame EXCEPT !.panes = probe.frame.panes] = probe.frame
    /\ \A q \in LeafPaths(PanesAsList(probe.frame)) :
          NodeAt(PanesAsList(applied.value.frame), q)
              = TraverseFn(probe.f, NodeAt(PanesAsList(probe.frame), q))

\* The Batch nesting is as it was, and a fold of the same optic over the
\* result visits the transformed leaves, in order.
NestingKeptAndRefolded ==
    /\ Nesting(PanesAsList(applied.value.frame)) = Nesting(PanesAsList(probe.frame))
    /\ applied.value.visited = TransformedLeaves(probe.frame, probe.f)

\* C24 as stated: for every closure f, the traverse of the composed optic
\* applies f exactly once to each non-Batch leaf of every pane, keeps the
\* panes, the Batch nesting and every other field, and a fold of the same
\* optic over the result visits exactly the transformed leaves in order.
C24_TraverseKeepsNesting ==
    applied.op = "traverse" => TraversedEachLeafOnce /\ NestingKeptAndRefolded

\* C24, amended: for every closure f the traverse applies f exactly once
\* to each non-Batch leaf, in order, and keeps the panes and every other
\* field; when f answers no Batch, the nesting is kept and the fold over
\* the result visits exactly the transformed leaves in order.
C24_TraverseKeepsNestingOfLeafClosures ==
    applied.op = "traverse" =>
        /\ TraversedEachLeafOnce
        /\ (\A n \in 1 .. Len(TransformedLeaves(probe.frame, probe.f)) :
               TransformedLeaves(probe.frame, probe.f)[n].kind # "Batch")
              => NestingKeptAndRefolded

\* The frame of composed_all_panes_pane_commands_and_deep_commands was
\* traversed with the closure that moves DrawQuads ten to the right: the
\* fold over the result meets the quads at x = 11, 14 and 17 (42 in sum)
\* and the FillRect as it was.
C24_Witness ==
    /\ applied.op = "traverse"
    /\ probe.f = "shift"
    /\ Len(probe.frame.panes) = 2
    /\ probe.frame.panes[1].commands = <<draw_quad(1), Batch(<<draw_quad(4), fill_rect>>)>>
    /\ probe.frame.panes[2].commands = <<Batch(<<draw_quad(7)>>)>>
    /\ applied.value.visited = <<draw_quad(11), draw_quad(14), fill_rect, draw_quad(17)>>
    /\ Len(applied.value.calls) = 4

\* The quads a draw call covers.
QuadsOf(call) ==
    (call.first \div INDICES_PER_QUAD) .. ((call.last \div INDICES_PER_QUAD) - 1)

\* Every quad the call covers was written by executing the commands of
\* pane under cache_key.
WrittenForPane(call, pane, cache_key) ==
    \A q \in QuadsOf(call) :
        /\ q < Len(call.buffer.data)
        /\ call.buffer.data[q + 1] = PaneTag(pane, cache_key)

\* C25: whenever call_draw draws a pane section from the store, the quads of
\* the stored range it replays were written by executing the commands of the
\* same pane described under the pane's current cache key.
C25_ReplayedRangeIsOfSamePane ==
    [][pc = "draw" =>
          \A c \in 1 .. Len(draw_calls') :
              (/\ draw_calls'[c].source = "previous"
               /\ draw_calls'[c].section \in 1 .. Len(input.panes)) =>
                  WrittenForPane(draw_calls'[c],
                                 input.panes[draw_calls'[c].section],
                                 input.keys[input.panes[draw_calls'[c].section]])]_vars

\* C26: every draw_indexed call of call_draw uses a quad range whose end is
\* at most the quad capacity of the index buffer of its slot and at most the
\* quad capacity of the vertex buffer bound for it, current or stored.
C26_DrawRangeWithinCapacities ==
    [][pc = "draw" =>
          \A c \in 1 .. Len(draw_calls') :
              /\ draw_calls'[c].last \div INDICES_PER_QUAD
                    <= layers[LayerPos(layers, draw_calls'[c].zindex)]
                           .vb[draw_calls'[c].sub_idx + 1].capacity
              /\ draw_calls'[c].last \div INDICES_PER_QUAD
                    <= draw_calls'[c].buffer.capacity]_vars

\* No slot of any layer asks for more quads.
NoSlotNeedsMore(ls) ==
    \A l \in 1 .. Len(ls) : \A i \in 1 .. NumSlots :
        need_more_quads(ls[l].vb[i]) = None

\* C27: with the frame input fixed over the passes of a frame, no pass
\* failing and every reallocation succeeding, the overflow retry loop of
\* paint_impl ends after a bounded number of passes: the pass that follows a
\* reallocation leaves no slot of any layer asking for more quads, so no
\* frame runs more than two passes.
C27_OverflowRetryTerminates ==
    (~frame_log.failed /\ ~frame_log.gave_up) =>
        /\ pass <= 1
        /\ (pc = "alloc" /\ pass = 1) => NoSlotNeedsMore(layers)

\* A frame whose first pass overflowed a slot ran a second pass, which
\* completed with no slot asking for more quads, and went on to draw.
C27_Witness ==
    /\ pc = "draw"
    /\ pass = 1
    /\ frame_log.overflowed
    /\ ~frame_log.failed
    /\ ~frame_log.gave_up
    /\ NoSlotNeedsMore(layers)
    /\ \E l \in 1 .. Len(layers) : layers[l].vb[1].capacity > SideCapacity

\* The cursor of slot sub_idx of the layer of depth zindex; 0 without one.
CursorOf(ls, zindex, sub_idx) ==
    IF HasLayer(ls, zindex)
    THEN ls[LayerPos(ls, zindex)].vb[sub_idx + 1].next_quad
    ELSE 0

\* The FillRect / DrawQuad leaves of a command list addressed to slot
\* sub_idx of depth zindex.
RECURSIVE LeavesFor(_, _, _)
LeavesFor(cmds, zindex, sub_idx) ==
    IF cmds = <<>> THEN 0
    ELSE (CASE Head(cmds).kind \in {"FillRect", "DrawQuad"} ->
                  IF Head(cmds).zindex = zindex /\ Head(cmds).layer = sub_idx
                  THEN 1 ELSE 0
            [] Head(cmds).kind = "Batch" -> LeavesFor(Head(cmds).cmds, zindex, sub_idx)
            [] OTHER -> 0)
         + LeavesFor(Tail(cmds), zindex, sub_idx)

CursorIncrease(before, after, zindex, sub_idx) ==
    CursorOf(after, zindex, sub_idx) - CursorOf(before, zindex, sub_idx)

RECURSIVE TotalIncrease(_, _, _)
TotalIncrease(before, after, pairs) ==
    IF pairs = {} THEN 0
    ELSE LET p == CHOOSE x \in pairs : TRUE
         IN  CursorIncrease(before, after, p[1], p[2])
                + TotalIncrease(before, after, pairs \ {p})

\* C28: executing a command list with history moves, for every (depth,
\* slot), the cursor by the number of FillRect / DrawQuad leaves addressed to
\* it, batches included; a list without such leaves leaves every cursor
\* where it was; and quads_emitted is the total cursor increase over all
\* (depth, slot).
C28_CursorIncreaseIsLeafCount ==
    (applied.op = "execute_commands_with_history") =>
        /\ \A z \in ExecuteDepths, i \in Slots :
              CursorIncrease(applied.value.before, layers, z, i)
                 = LeavesFor(applied.value.commands, z, i)
        /\ \A l \in 1 .. Len(layers) : layers[l].zindex \in ExecuteDepths
        /\ applied.value.history.quads_emitted
              = TotalIncrease(applied.value.before, layers, ExecuteDepths \X Slots)
        /\ applied.value.history.quads_emitted = LeafCount(applied.value.commands)

\* A list with markers, a nested batch and leaves for three (depth, slot)
\* pairs was executed on layers whose cursors had already moved.
C28_Witness ==
    /\ applied.op = "execute_commands_with_history"
    /\ applied.value.history.quads_emitted = 4
    /\ \E k \in 1 .. Len(applied.value.commands) :
          applied.value.commands[k].kind = "Batch"
    /\ CursorOf(applied.value.before, 0, 1) > 0
    /\ CursorIncrease(applied.value.before, layers, 0, 1) = 1
    /\ CursorIncrease(applied.value.before, layers, 1, 2) = 1

\* A list of SideCapacity + 1 leaves was executed on a side slot: the
\* allocations went past the capacity.
C28_WitnessOverflow ==
    /\ applied.op = "execute_commands_with_history"
    /\ applied.value.history.quads_emitted = SideCapacity + 1
    /\ IsSome(need_more_quads(layers[LayerPos(layers, 0)].vb[1]))

\* C29: in the plan of every completed pass, for every (depth, slot), the
\* background section starts at 0 (the pass cleared every cursor before it
\* took its first snapshot), each section starts where the preceding one
\* ended, and the last one ends at the slot's final cursor: the ranges are
\* disjoint, contiguous and cover [0, final cursor).
C29_SectionsTileTheCursorRange ==
    (pc = "alloc" /\ IsSome(render_plan)) =>
        \A z \in Depths, i \in Slots :
            /\ StartCount(Unwrap(render_plan).sections[1].quad_range, z, i) = 0
            /\ \A k \in 1 .. (Len(Unwrap(render_plan).sections) - 1) :
                  /\ StartCount(Unwrap(render_plan).sections[k + 1].quad_range, z, i)
                        = EndCount(Unwrap(render_plan).sections[k].quad_range, z, i)
                  /\ StartCount(Unwrap(render_plan).sections[k].quad_range, z, i)
                        <= EndCount(Unwrap(render_plan).sections[k].quad_range, z, i)
            /\ EndCount(Unwrap(render_plan)
                            .sections[Len(Unwrap(render_plan).sections)].quad_range, z, i)
                  = CursorOf(layers, z, i)

\* A pass of a later frame, begun on layers whose cursors the frame before
\* had moved, completed a plan of four sections, one of them skipped, with
\* quads in a layer of another depth than the main layer's.
C29_Witness ==
    /\ pc = "alloc"
    /\ num_frames >= 2
    /\ IsSome(render_plan)
    /\ Len(Unwrap(render_plan).sections) = 4
    /\ Unwrap(render_plan).sections[2].skippable
    /\ RangeLength(Unwrap(render_plan).sections[2].quad_range, 0, 0) > 0
    /\ \E z \in Depths, i \in Slots : z # 0 /\ CursorOf(layers, z, i) > 0

\* The layer list is sorted by strictly increasing depth.
StrictlySorted(ls) ==
    \A a, b \in 1 .. Len(ls) : a < b => ls[a].zindex < ls[b].zindex

\* Every layer of before is a layer of after, slots untouched.
LayersKept(before, after) ==
    \A a \in 1 .. Len(before) : \E b \in 1 .. Len(after) : after[b] = before[a]

\* A layer as layer_for_zindex creates it: slot capacities 32, 128, 32,
\* every cursor 0.
FreshLayer(layer, zindex) ==
    /\ layer.zindex = zindex
    /\ <<layer.vb[1].capacity, layer.vb[2].capacity, layer.vb[3].capacity>>
          = <<32, 128, 32>>
    /\ \A i \in 1 .. NumSlots : layer.vb[i].next_quad = 0

\* C30: the layer list is always sorted by strictly increasing depth; a
\* layer_for_zindex call for a depth that has a layer returns that layer and
\* changes nothing; a call for a new depth adds exactly one layer, with slot
\* capacities 32, 128, 32 and cursors 0, returns it, and leaves the existing
\* layers as they were.
C30_LayersSortedAndKept ==
    /\ StrictlySorted(layers)
    /\ (applied.op = "layer_for_zindex") =>
          IF HasLayer(applied.value.before, applied.value.zindex)
          THEN /\ layers = applied.value.before
               /\ applied.value.returned
                     = applied.value.before[LayerPos(applied.value.before,
                                                     applied.value.zindex)]
          ELSE /\ Len(layers) = Len(applied.value.before) + 1
               /\ LayersKept(applied.value.before, layers)
               /\ FreshLayer(applied.value.returned, applied.value.zindex)
               /\ \E b \in 1 .. Len(layers) : layers[b] = applied.value.returned

\* layer_for_zindex was called for a depth below those of two existing
\* layers, one of them with quads: the new layer is the first of three.
C30_Witness ==
    /\ applied.op = "layer_for_zindex"
    /\ ~HasLayer(applied.value.before, applied.value.zindex)
    /\ Len(layers) = 3
    /\ layers[1] = applied.value.returned
    /\ \E i \in Slots : CursorOf(applied.value.before, 1, i) > 0

\* The buffer instance of a slot that the next pass writes.
InstanceOf(ls, sl) == ls[sl[1]].vb[sl[2]].index

\* C31 as stated: every call_draw advances the buffer-instance index of
\* every slot by one modulo 3.
C31_EveryCallDrawRotates ==
    [][(pc = "draw" /\ pc' = "idle") =>
          \A sl \in AllSlots :
              InstanceOf(layers', sl) = (InstanceOf(layers, sl) + 1) % 3]_vars

\* C31, amended: the buffer-instance index of every slot is 0, 1 or 2; a
\* call_draw that gets as far as its render passes advances it by one modulo
\* 3 in every slot, with or without quads, so the instance written in this
\* frame is neither the next write target nor the one after it; a call_draw
\* that fails before them leaves every index where it was.
C31_CompletedCallDrawRotates ==
    [][/\ \A sl \in AllSlots : InstanceOf(layers, sl) \in 0 .. 2
       /\ (pc = "draw" /\ pc' = "idle") =>
             \A sl \in AllSlots :
                 IF paint_result'.call_draw = "Ok"
                 THEN /\ InstanceOf(layers', sl) = (InstanceOf(layers, sl) + 1) % 3
                      /\ InstanceOf(layers', sl) # InstanceOf(layers, sl)
                      /\ (InstanceOf(layers', sl) + 1) % 3 # InstanceOf(layers, sl)
                 ELSE InstanceOf(layers', sl) = InstanceOf(layers, sl)]_vars

\* Three call_draws completed: a slot without quads and a slot with quads
\* are both back at instance 0.
C31_Witness ==
    /\ pc = "idle"
    /\ num_frames = 3
    /\ faults = 0
    /\ paint_result.call_draw = "Ok"
    /\ \E sl, tl \in AllSlots :
          /\ InstanceOf(layers, sl) = 0
          /\ InstanceOf(layers, tl) = 0
          /\ layers[sl[1]].vb[sl[2]].next_quad = 0
          /\ layers[tl[1]].vb[tl[2]].next_quad > 0

\* C32: a vertex buffer that was handed to a render pass is never again
\* mapped for allocation: none of the three instances of the slot, one of
\* which every later pass maps, is a buffer in the store or a buffer a
\* render pass was given before, and the buffer a pass maps is none of them.
C32_HandedBufferNeverMapped ==
    [][/\ \A k \in 1 .. 3 : device.vb.bufs[k] \notin device.handed \cup device.store
       /\ device.store \subseteq device.handed
       /\ (device'.mapped # device.mapped) =>
             device'.mapped \notin device.handed \cup device.store]_vars

\* After three draws with quads and no reallocation the rotation has come
\* round: the pass of the fourth frame maps instance 0 again, which is the
\* buffer the first draw swapped in, while the store holds the buffer drawn
\* in the third frame.
C32_Witness ==
    /\ device.vb.bufs = <<4, 5, 6>>
    /\ device.vb.index = 0
    /\ device.vb.next_quad > 0
    /\ device.mapped = 4
    /\ device.store = {3}
    /\ device.handed = {1, 2, 3}

\* The capacity of slot sub_idx of the layer of depth zindex.
CapacityOf(ls, zindex, sub_idx) == ls[LayerPos(ls, zindex)].vb[sub_idx + 1].capacity

\* C33: in every step, of a pass, a reallocation or a draw, every slot's
\* capacity is its initial value (32, 128 or 1024) or a multiple of 128,
\* and the capacity of no slot of a layer that exists decreases.
C33_CapacityNeverDecreases ==
    [][/\ \A sl \in AllSlots :
             \/ layers[sl[1]].vb[sl[2]].capacity \in {32, 128, 1024}
             \/ layers[sl[1]].vb[sl[2]].capacity % 128 = 0
       /\ \A l \in 1 .. Len(layers) :
             /\ HasLayer(layers', layers[l].zindex)
             /\ \A i \in Slots :
                   CapacityOf(layers', layers[l].zindex, i)
                      >= CapacityOf(layers, layers[l].zindex, i)]_vars

\* A side slot of the main layer overflowed and was reallocated: its
\* capacity went from 32 to 128, and the frame went on to its draw.
C33_Witness ==
    /\ pc = "idle"
    /\ paint_result.call_draw = "Ok"
    /\ CapacityOf(layers, 0, 0) = 128
    /\ CapacityOf(layers, 0, 1) = 1024
    /\ CapacityOf(layers, 0, 2) = 32
    /\ HasLayer(layers, 1)

\* The quad range of the plan or of the store that a draw call of a section
\* covers: the call reads it from the store when it replays.
ApplicableRange(call, plan, store) ==
    IF call.source = "previous"
    THEN Unwrap(store).section_ranges[call.section + 1]
    ELSE Unwrap(plan).sections[call.section + 1].quad_range

\* The draw call covers exactly the non-empty range given for its slot.
DrawsNonEmptyRange(call, range) ==
    /\ EndCount(range, call.zindex, call.sub_idx)
          > StartCount(range, call.zindex, call.sub_idx)
    /\ call.first = INDICES_PER_QUAD * StartCount(range, call.zindex, call.sub_idx)
    /\ call.last = INDICES_PER_QUAD * EndCount(range, call.zindex, call.sub_idx)

\* The full-range draw of a slot: indices 0 .. 6 x cursor with a cursor that
\* is not 0, the only call of its slot, and no section of the plan, if
\* there is one, has a non-empty range for the slot.
IsFallbackDraw(call, calls, plan, ls) ==
    /\ call.first = 0
    /\ call.last = INDICES_PER_QUAD * CursorOf(ls, call.zindex, call.sub_idx)
    /\ call.last > 0
    /\ \A d \in 1 .. Len(calls) :
          (calls[d].zindex = call.zindex /\ calls[d].sub_idx = call.sub_idx)
              => calls[d] = call
    /\ IsSome(plan) =>
          \A k \in 1 .. Len(Unwrap(plan).sections) :
              RangeLength(Unwrap(plan).sections[k].quad_range,
                          call.zindex, call.sub_idx) <= 0

\* C34: in a call_draw, a draw call of a section covers the section's
\* non-empty applicable range of the slot, so a section whose range is empty
\* issues none; a full-range draw is issued only for a slot whose cursor is
\* not 0, for which no section drew and no section of the plan has a
\* non-empty current range.
C34_EmptyRangeDrawsNothing ==
    [][(pc = "draw" /\ pc' = "idle") =>
          \A c \in 1 .. Len(draw_calls') :
              IF draw_calls'[c].section >= 0
              THEN /\ IsSome(render_plan)
                   /\ DrawsNonEmptyRange(
                          draw_calls'[c],
                          ApplicableRange(draw_calls'[c], render_plan, prev_frame_buffers))
              ELSE IsFallbackDraw(draw_calls'[c], draw_calls', render_plan, layers)]_vars

\* A plan none of whose sections has quads of slot 0 of depth 0 was drawn
\* with the cursor of the slot past 0: no section issued a call and the one
\* call is the full-range draw.
C34_Witness ==
    /\ pc = "idle"
    /\ applied.op = "draw_layer_sections"
    /\ IsSome(render_plan)
    /\ \A k \in 1 .. Len(Unwrap(render_plan).sections) :
          RangeLength(Unwrap(render_plan).sections[k].quad_range, 0, 0) = 0
    /\ CursorOf(layers, 0, 0) > 0
    /\ draw_calls = <<DrawCall(0, 0, 0 - 1, 0, INDICES_PER_QUAD * CursorOf(layers, 0, 0),
                               "current", WrittenBuffer(layers[1].vb[1]))>>

\* The rectangle draw_layer_sections passes to set_scissor_rect for a
\* section it draws (draw.rs 65-74): the scissor of the section, or the
\* whole viewport of the plan for a section without one.
ScissorPassed(section, plan) ==
    IF IsSome(section.scissor)
    THEN Unwrap(section.scissor)
    ELSE [x |-> 0, y |-> 0, width |-> plan.viewport_width,
          height |-> plan.viewport_height]

InsideViewport(scissor, plan) ==
    /\ scissor.x >= 0
    /\ scissor.y >= 0
    /\ scissor.width > 0
    /\ scissor.height > 0
    /\ scissor.x + scissor.width <= plan.viewport_width
    /\ scissor.y + scissor.height <= plan.viewport_height

EmptyScissor(section) ==
    /\ IsSome(section.scissor)
    /\ (Unwrap(section.scissor).width = 0 \/ Unwrap(section.scissor).height = 0)

\* C35: the scissor rectangle set for every section that is drawn has a
\* positive width and height and lies inside the viewport of the plan,
\* whatever the bounds of the pane, and a section whose clamped scissor is
\* empty issues no draw call.
C35_ScissorInsideViewport ==
    [][(pc = "draw" /\ pc' = "idle") =>
          /\ \A c \in 1 .. Len(draw_calls') :
                draw_calls'[c].section >= 0 =>
                    InsideViewport(
                        ScissorPassed(Unwrap(render_plan).sections[draw_calls'[c].section + 1],
                                      Unwrap(render_plan)),
                        Unwrap(render_plan))
          /\ IsSome(render_plan) =>
                \A k \in 1 .. Len(Unwrap(render_plan).sections) :
                    EmptyScissor(Unwrap(render_plan).sections[k]) =>
                        \A c \in 1 .. Len(draw_calls') : draw_calls'[c].section # k - 1]_vars

\* A pane that starts left of the viewport and ends below it was drawn
\* with its clamped scissor.
C35_Witness ==
    /\ pc = "idle"
    /\ applied.op = "draw_layer_sections"
    /\ probe.bounds.x < 0
    /\ probe.bounds.y + probe.bounds.height > ViewportHeight
    /\ \E c \in 1 .. Len(draw_calls) :
          /\ draw_calls[c].section = 1
          /\ Unwrap(Unwrap(render_plan).sections[2].scissor)
                = [x |-> 0, y |-> 0, width |-> probe.bounds.x + probe.bounds.width,
                   height |-> ViewportHeight]

\* The FillRect / DrawQuad leaves of a command list in the order in which
\* they are executed.
RECURSIVE EmittedLeaves(_)
EmittedLeaves(cmds) ==
    IF cmds = <<>> THEN <<>>
    ELSE (CASE Head(cmds).kind \in {"FillRect", "DrawQuad"} -> <<Head(cmds)>>
            [] Head(cmds).kind = "Batch" -> EmittedLeaves(Head(cmds).cmds)
            [] OTHER -> <<>>)
         \o EmittedLeaves(Tail(cmds))

\* The leaves at a position at which an earlier leaf is.
Repeats(leaves) ==
    {i \in 1 .. Len(leaves) : \E j \in 1 .. (i - 1) : leaves[j].pos = leaves[i].pos}

HistoryCounts(h, leaves) ==
    /\ h.quads_emitted = h.fills_emitted + h.draws_emitted
    /\ h.quads_emitted = Len(leaves)
    /\ h.fills_emitted = Cardinality({i \in 1 .. Len(leaves) : leaves[i].kind = "FillRect"})
    /\ h.draws_emitted = Cardinality({i \in 1 .. Len(leaves) : leaves[i].kind = "DrawQuad"})
    /\ h.overdraw_positions = Cardinality(Repeats(leaves))
    /\ h.overdraw_positions
          = h.quads_emitted - Cardinality({leaves[i].pos : i \in 1 .. Len(leaves)})

\* C36: the history of an executed command list has quads_emitted =
\* fills_emitted + draws_emitted, the two being the numbers of FillRect and
\* of DrawQuad leaves, and overdraw_positions is the number of leaves at
\* the position of an earlier leaf: quads_emitted minus the number of
\* distinct positions.
C36_HistoryCountsLeavesAndRepeats ==
    applied.op = "execute_commands_with_history" =>
        HistoryCounts(applied.value.history, EmittedLeaves(applied.value.commands))

\* A list with fills and draws, in a nested batch too, one of them at the
\* position of an earlier leaf, was executed.
C36_Witness ==
    /\ applied.op = "execute_commands_with_history"
    /\ applied.value.history.fills_emitted = 2
    /\ applied.value.history.draws_emitted = 2
    /\ applied.value.history.overdraw_positions = 1
    /\ \E i \in 1 .. Len(applied.value.commands) : applied.value.commands[i].kind = "Batch"

\* The length of the run of Skipped outcomes at the end of outcomes.
RECURSIVE TrailingSkips(_)
TrailingSkips(outcomes) ==
    IF outcomes = <<>> \/ outcomes[Len(outcomes)].kind # "Skipped" THEN 0
    ELSE 1 + TrailingSkips(SubSeq(outcomes, 1, Len(outcomes) - 1))

RECURSIVE ExecutedQuads(_)
ExecutedQuads(outcomes) ==
    IF outcomes = <<>> THEN 0
    ELSE (IF Head(outcomes).kind = "Executed"
          THEN Head(outcomes).stats.quads_emitted ELSE 0)
         + ExecutedQuads(Tail(outcomes))

SkippedOutcomes(outcomes) ==
    Cardinality({i \in 1 .. Len(outcomes) : outcomes[i].kind = "Skipped"})

\* rate, a fraction <<numerator, denominator>>, is skipped / processed, and
\* 0 when nothing was processed.
IsRate(rate, skipped, processed) ==
    /\ rate[2] > 0
    /\ IF processed = 0 THEN rate[1] = 0
       ELSE rate[1] * processed = skipped * rate[2]

\* C37: the counters of a CofreeContext agree with its outcomes:
\* sections_processed is their number, sections_skipped the number of
\* Skipped ones, skip_streak the length of the run of Skipped ones at the
\* end, total_quads_emitted the sum of quads_emitted over the Executed
\* ones, and skip_rate is sections_skipped / sections_processed, 0 for no
\* outcome.
C37_ContextCountsOutcomes ==
    /\ cofree.sections_processed = Len(cofree.prior_outcomes)
    /\ cofree.sections_skipped = SkippedOutcomes(cofree.prior_outcomes)
    /\ cofree.skip_streak = TrailingSkips(cofree.prior_outcomes)
    /\ cofree.total_quads_emitted = ExecutedQuads(cofree.prior_outcomes)
    /\ applied.op = "skip_rate" =>
          /\ IsRate(applied.value, cofree.sections_skipped, cofree.sections_processed)
          /\ IsRate(applied.value, SkippedOutcomes(cofree.prior_outcomes),
                    Len(cofree.prior_outcomes))

\* A context advanced with an executed outcome between skipped ones, then
\* asked for its rate.
C37_Witness ==
    /\ applied.op = "skip_rate"
    /\ Len(cofree.prior_outcomes) = 4
    /\ cofree.prior_outcomes[1].kind = "Skipped"
    /\ cofree.prior_outcomes[2].kind = "Executed"
    /\ cofree.prior_outcomes[2].stats.quads_emitted = 2
    /\ cofree.skip_streak = 2
    /\ cofree.sections_skipped = 3
    /\ cofree.total_quads_emitted = 2
    /\ applied.value = <<3, 4>>

\* The children of a batch after clipping that are not Nop, in their order.
SurvivingChildren(cmds, clip) ==
    SelectSeq([k \in 1 .. Len(cmds) |-> clip_to_rect(cmds[k], clip)],
              LAMBDA c : c.kind # "Nop")

\* out is what the claim asks of clip_to_rect(cmd, clip): a marker is
\* returned as it is; a batch becomes the batch of its surviving children,
\* each of them clipped in the same way, or Nop when none survives.
RECURSIVE ClippedAsClaimed(_, _, _)
ClippedAsClaimed(cmd, out, clip) ==
    CASE cmd.kind \in {"Clear", "SetClipRect", "BeginPostProcess", "Nop"} -> out = cmd
      [] cmd.kind = "Batch" ->
            /\ out = IF SurvivingChildren(cmd.cmds, clip) = <<>> THEN Nop
                     ELSE Batch(SurvivingChildren(cmd.cmds, clip))
            /\ \A k \in 1 .. Len(cmd.cmds) :
                  ClippedAsClaimed(cmd.cmds[k], clip_to_rect(cmd.cmds[k], clip), clip)
      [] OTHER -> TRUE

\* No batch of the command holds a Nop or is empty.
RECURSIVE Pruned(_)
Pruned(cmd) ==
    cmd.kind = "Batch" =>
        /\ cmd.cmds # <<>>
        /\ \A k \in 1 .. Len(cmd.cmds) : cmd.cmds[k].kind # "Nop" /\ Pruned(cmd.cmds[k])

\* The FillRect rectangles of a command.
RECURSIVE FillRects(_)
FillRects(cmd) ==
    CASE cmd.kind = "FillRect" -> {cmd.rect}
      [] cmd.kind = "Batch" -> UNION {FillRects(cmd.cmds[k]) : k \in 1 .. Len(cmd.cmds)}
      [] OTHER -> {}

\* Every edge of the rectangle is a whole number below 2^24 in size, so
\* that f32 adds and subtracts the edges without rounding.
ExactInF32(rect) ==
    \A v \in {rect.x, rect.y, rect.x + rect.width, rect.y + rect.height} :
        v > 0 - Pow2(24) /\ v < Pow2(24)

ClippedTwice(p, k) == applied.value.twice[p][k] = applied.value.once[p][k]

BatchesClippedAsClaimed ==
    \A p \in 1 .. Len(probe.frame.panes) :
        \A k \in 1 .. Len(probe.frame.panes[p].commands) :
            /\ ClippedAsClaimed(probe.frame.panes[p].commands[k],
                                applied.value.once[p][k], probe.clip)
            /\ Pruned(applied.value.once[p][k])

RECURSIVE WithoutBatches(_)
WithoutBatches(cmds) ==
    IF cmds = <<>> THEN <<>>
    ELSE (IF Head(cmds).kind = "Batch" THEN WithoutBatches(Head(cmds).cmds)
          ELSE <<Head(cmds)>>)
         \o WithoutBatches(Tail(cmds))

\* C39: a Batch feeds the hasher what its children feed, in their order,
\* and nothing for itself: a list with batches and the list of the same
\* commands without the batches feed the same bytes.
C39_BatchFeedsOnlyItsChildren ==
    applied.op = "content_hash" =>
        \A p \in 1 .. Len(probe.frame.panes), q \in 1 .. Len(probe.frame.panes) :
            probe.frame.panes[q].commands = WithoutBatches(probe.frame.panes[p].commands)
                => applied.value[p] = applied.value[q]

====
